---------------------------- MODULE Spec2Model ----------------------------
(***************************************************************************)
(* Model of the vistet_backend catalog service: the Clothe and Store       *)
(* tables, the ingestion endpoints (clothe/from-scraped/,                  *)
(* clothe/bulk-from-scraped/), the ordinary Clothe endpoints (POST         *)
(* clothe/, PUT clothe/<id>/) and the crawler's per-record submission.     *)
(*                                                                         *)
(* Spec     : single-record ingestion and the ordinary Clothe requests,    *)
(*            one request at a time (each handler is one action).          *)
(* SpecUpsert: single-record ingestion alone.                              *)
(* SpecBatch: bulk ingestion and crawls, one request at a time.            *)
(* SpecConc : several from-scraped requests run concurrently; the queries  *)
(*            of Store.objects.get_or_create and                           *)
(*            Clothe.objects.update_or_create are separate steps.          *)
(* SpecExtract: the crawler's extract_products_from_js applied to a page.  *)
(* SpecClock: single-record ingestion while the clock advances.            *)
(* SpecIngest: single-record ingestion of request data of any shape.       *)
(* SpecCrawl: crawls over a network that may fail at each submission.      *)
(* SpecDerived: items with all kinds of variants are ingested and read.    *)
(* SpecOutfit: outfits are created from the clothes of a wardrobe.         *)
(* SpecRead: every request that answers with Clothe JSON.                  *)
(***************************************************************************)
EXTENDS Integers, Sequences, FiniteSets, TLC

VARIABLES
    clothes,   \* the Clothe table: a sequence of rows, the index is the id
    stores,    \* the Store table: a sequence of rows, the index is the id
    resp,      \* the last HTTP response (or crawler result) and its request
    pc,        \* SpecConc: each worker's position in the from-scraped handler
    wreq,      \* SpecConc: each worker's validated request data
    wstore,    \* SpecConc: each worker's local rehabclo_store
    wobj,      \* SpecConc: each worker's local obj inside update_or_create
    wres,      \* SpecConc: each worker's last outcome
    page,      \* SpecExtract: the page handed to the extractor
    extracted, \* SpecExtract: what extract_products_from_js made of it
    now,       \* SpecClock: the time timezone.now() returns
    outfits    \* the Outfit table: a sequence of rows, the index is the id

vars == <<clothes, stores, resp, pc, wreq, wstore, wobj, wres, page, extracted, now,
          outfits>>

-----------------------------------------------------------------------------
(* Bounds of the model *)

MaxRows == 2          \* Clothe rows the table may hold
MaxShopifyId == 2     \* vendor ids 1..MaxShopifyId occur in requests
MaxBatch == 3         \* records per bulk request / per crawl
NumWorkers == 2       \* concurrent from-scraped requests
MaxProducts == 2      \* raw products in a page's metadata block
MaxVariants == 2      \* productVariants entries in a page's image block
MaxTime == 2          \* clock values 0..MaxTime
MaxCrawl == 2         \* records per crawl over a failing network
MaxItemVariants == 2  \* variants of an ingested item in SpecDerived
MaxOutfits == 2       \* Outfit rows the table may hold

-----------------------------------------------------------------------------
(* Values *)

\* A nullable column: Null, or Some(v).
Null == <<>>
Some(x) == <<x>>

Titles == {"A", "B"}
ShopifyIds == 1 .. MaxShopifyId
\* The ids of the User table's rows (the table itself is not modelled).
Users == {1}
Workers == 1 .. NumWorkers

ImageUrl == "https://cdn.x.com/a.jpg"
RehabcloName == "Rehabclo"
GidOf(id) == "gid://shopify/Product/" \o ToString(id)
VendorIn == "REHAB CLO."

\* Variant dictionaries (serializers.DictField: any keys).
Variant(price, size) == [price |-> price, public_title |-> size]
VariantNoPrice(size) == [public_title |-> size]

\* The payload part of a scraped record: vendor type label, variants and
\* (optionally) image_url.
Payloads ==
    { [type |-> "Shorts",
       variants |-> << Variant(3799000, "S/28US"), Variant(1000, "M") >>,
       image_url |-> ImageUrl],
      [type |-> "Zzz", variants |-> <<>>],
      [type |-> "Polera",
       variants |-> << VariantNoPrice("L"), Variant(2550, "") >>,
       image_url |-> ""] }

\* f extended (or overwritten) with key k bound to v.
With(f, k, v) == [x \in DOMAIN f \cup {k} |-> IF x = k THEN v ELSE f[x]]
Without(f, k) == [x \in DOMAIN f \ {k} |-> f[x]]

\* Request bodies of the ingestion endpoints: complete records ...
FullBody(id, title, p) ==
    With(With(With(With(p, "id", id), "gid", GidOf(id)), "vendor", VendorIn),
         "title", title)

ValidBodies == { FullBody(id, t, p) : id \in ShopifyIds, t \in Titles, p \in Payloads }

\* ... and records that lack a required field.
InvalidBodies ==
    { Without(FullBody(1, "A", [type |-> "Zzz", variants |-> <<>>]), "id"),
      Without(FullBody(2, "B", [type |-> "Zzz", variants |-> <<>>]), "title"),
      [id |-> 1, title |-> "A"] }

ScrapedBodies == ValidBodies \cup InvalidBodies


-----------------------------------------------------------------------------
(* The storage layer: the Clothe and Store tables and the Django manager   *)
(* calls the handlers make.                                                *)

\* Outcomes of a handler or of a query.
Ok == "ok"
IntegrityError == "IntegrityError"
MultipleObjectsReturned == "MultipleObjectsReturned"

\* The owner check with its second disjunct cut short: a row with neither
\* owner passes.
OwnerCheckWithoutStoreTest(row) ==
    \/ (row.user # Null /\ row.store = Null)
    \/ row.user = Null

\* Clothe.Meta.constraints, clothe_belongs_to_user_or_store.
ClotheBelongsToUserOrStore(row) ==
    \/ (row.user # Null /\ row.store = Null)
    \/ (row.user = Null /\ row.store # Null)

\* Clothe.shopify_id: unique=True, null allowed (NULLs never collide).
\* self is the id of the row being written (0 for an insert).
ShopifyIdUnique(cl, row, self) ==
    \/ row.shopify_id = Null
    \/ \A i \in DOMAIN cl : i # self => cl[i].shopify_id # row.shopify_id

\* The constraints the database checks when a Clothe row is written.
ClotheWriteAllowed(cl, row, self) ==
    ClotheBelongsToUserOrStore(row) /\ ShopifyIdUnique(cl, row, self)

\* Clothe.objects.filter(name=...): the ids of the rows with that name.
\* Clothe.name carries no unique constraint.
ClothesNamed(cl, name) == { i \in DOMAIN cl : cl[i].name = name }

\* Store.objects.filter(name=...). Store.name carries no unique constraint.
StoresNamed(st, name) == { i \in DOMAIN st : st[i].name = name }

\* The defaults of the scraped-source store.
RehabcloStore ==
    [name |-> RehabcloName, description |-> "Rehabclo",
     contact_number |-> "+569000000000", site_url |-> "https://rehabclo.cl"]

\* A Clothe row as Clothe(**params) builds it: the model's field defaults,
\* overwritten by the given params.
ClotheDefaults ==
    [name |-> "", type |-> "OTHER", image |-> Null, image_url |-> Null,
     shopify_id |-> Null, gid |-> Null, vendor |-> Null, base_price |-> Null,
     variants |-> <<>>, user |-> Null, store |-> Null,
     created_at |-> Null, updated_at |-> Null]

\* What save() makes of the timestamp fields of a row being inserted:
\* auto_now_add sets created_at, auto_now sets updated_at.
PreSaveAdd(row) == [row EXCEPT !.created_at = now, !.updated_at = now]

\* update_or_create's save() forgetting the auto_now field.
PreSaveKeepsUpdatedAt(row) == row

\* What save() makes of the timestamp fields of an existing row: auto_now
\* sets updated_at, created_at stays.
PreSave(row) == [row EXCEPT !.updated_at = now]

\* row with the attributes of params set (setattr for each key).
SetAttrs(row, params) ==
    [k \in DOMAIN row |-> IF k \in DOMAIN params THEN params[k] ELSE row[k]]

\* Store.objects.get_or_create(name="Rehabclo", defaults={...}), run alone.
StoreGetOrCreate(st) ==
    LET found == StoresNamed(st, RehabcloName) IN
    IF Cardinality(found) > 1
    THEN [error |-> MultipleObjectsReturned, stores |-> st, store |-> 0, created |-> FALSE]
    ELSE IF found # {}
    THEN [error |-> Ok, stores |-> st, store |-> CHOOSE i \in found : TRUE,
          created |-> FALSE]
    ELSE [error |-> Ok, stores |-> Append(st, RehabcloStore), store |-> Len(st) + 1,
          created |-> TRUE]

\* The update half of update_or_create: setattr each default on the matched
\* row, then save(); the database rejects a write that breaks a constraint.
ClotheUpdateRow(cl, id, defaults) ==
    LET row == PreSave(SetAttrs(cl[id], defaults)) IN
    IF ClotheWriteAllowed(cl, row, id)
    THEN [error |-> Ok, clothes |-> [cl EXCEPT ![id] = row], obj |-> id, created |-> FALSE]
    ELSE [error |-> IntegrityError, clothes |-> cl, obj |-> 0, created |-> FALSE]

\* The create half of update_or_create (get_or_create's except branch):
\* insert; on IntegrityError look the row up again and, if it is there now,
\* go on to update it, else re-raise.
ClotheInsertRow(cl, name, defaults) ==
    LET row == PreSaveAdd(SetAttrs(SetAttrs(ClotheDefaults, defaults),
                                   [name |-> name])) IN
    IF ClotheWriteAllowed(cl, row, 0)
    THEN [error |-> Ok, clothes |-> Append(cl, row), obj |-> Len(cl) + 1, created |-> TRUE]
    ELSE LET again == ClothesNamed(cl, name) IN
         IF Cardinality(again) = 1
         THEN ClotheUpdateRow(cl, CHOOSE i \in again : TRUE, defaults)
         ELSE [error |-> IF again = {} THEN IntegrityError ELSE MultipleObjectsReturned,
               clothes |-> cl, obj |-> 0, created |-> FALSE]

\* Clothe.objects.update_or_create(name=title, defaults=clothe_data), run
\* alone: get by name (several matches raise), insert when there is none,
\* update the match otherwise.
UpdateOrCreate(cl, name, defaults) ==
    LET found == ClothesNamed(cl, name) IN
    IF Cardinality(found) > 1
    THEN [error |-> MultipleObjectsReturned, clothes |-> cl, obj |-> 0, created |-> FALSE]
    ELSE IF found = {}
    THEN ClotheInsertRow(cl, name, defaults)
    ELSE ClotheUpdateRow(cl, CHOOSE i \in found : TRUE, defaults)

-----------------------------------------------------------------------------
(* CreateClotheFromScrapedDataSerializer *)

RequiredFields == {"id", "gid", "vendor", "type", "title", "variants"}

\* is_valid(): every field without required=False must be present.
ScrapedErrors(body) == RequiredFields \ DOMAIN body
ScrapedIsValid(body) == ScrapedErrors(body) = {}

\* dict.get(key, default)
Get(d, key, default) == IF key \in DOMAIN d THEN d[key] ELSE default

\* Clothe.ClothingType: the values of the enumeration.
ClothingType ==
    {"SHIRT", "PANTS", "DRESS", "SHOES", "JACKET", "SWEATER", "SHORTS", "SKIRT",
     "BLOUSE", "HOODIE", "COAT", "JEANS", "ACCESSORIES", "POLERA", "OTHER"}

\* The second key of type_mapping as the source file spells it: "Pantal",
\* U+221A, U+2265, "n" (the bytes of a mis-decoded "Pantal\u00F3n").
PantalonKey == "Pantal<U+221A><U+2265>n"

\* type_mapping.get(label, label): the table without its default.
TypeMappingWithoutDefault(label) ==
    CASE label = "Shorts" -> "SHORTS"
      [] label = PantalonKey -> "PANTS"
      [] label = "Polera" -> "POLERA"
      [] label = "Accesorio" -> "ACCESSORIES"
      [] OTHER -> label

\* type_mapping.get(label, Clothe.ClothingType.OTHER)
TypeMapping(label) ==
    CASE label = "Shorts" -> "SHORTS"
      [] label = PantalonKey -> "PANTS"
      [] label = "Polera" -> "POLERA"
      [] label = "Accesorio" -> "ACCESSORIES"
      [] OTHER -> "OTHER"

\* A minor-unit integer divided by 100, as the DecimalField(decimal_places=2)
\* column holds it: <<whole units, hundredths>>.
CentavosToPesos(p) == << p \div 100, p % 100 >>

\* The base price taken from the last variant instead of the first.
BasePriceOfLastVariant(variants) ==
    IF variants = <<>>
    THEN Null
    ELSE CentavosToPesos(Get(variants[Len(variants)], "price", 0))

\* base_price: None for an empty variants list, else the first variant's
\* price (0 when the key is absent) / 100.
BasePrice(variants) ==
    IF variants = <<>>
    THEN Null
    ELSE CentavosToPesos(Get(variants[1], "price", 0))

\* clothe_data without its shopify_id and gid entries.
ClotheDataWithoutVendorId(vd, store) ==
    [name |-> vd.title,
     type |-> TypeMapping(vd.type),
     image |-> Null,
     image_url |-> Some(Get(vd, "image_url", "")),
     vendor |-> Some(vd.vendor),
     base_price |-> BasePrice(vd.variants),
     variants |-> vd.variants,
     store |-> Some(store)]

\* clothe_data, the defaults handed to update_or_create. It sets store and
\* does not mention user.
ClotheData(vd, store) ==
    [name |-> vd.title,
     type |-> TypeMapping(vd.type),
     image |-> Null,
     image_url |-> Some(Get(vd, "image_url", "")),
     shopify_id |-> Some(vd.id),
     gid |-> Some(vd.gid),
     vendor |-> Some(vd.vendor),
     base_price |-> BasePrice(vd.variants),
     variants |-> vd.variants,
     store |-> Some(store)]

\* The model instance a manager call returns: the row and its id. The
\* created flag of update_or_create is a separate local the serializer
\* drops; the instance carries no "_created" attribute.
Instance(cl, id) == With(cl[id], "id", id)

\* CreateClotheFromScrapedDataSerializer.create(validated_data): the whole
\* method, on tables cl and st. ret is the returned clothe (as <<instance>>,
\* <<>> when the method raised), created the local flag it does not return.
ScrapedCreate(cl, st, vd) ==
    LET s == StoreGetOrCreate(st) IN
    IF s.error # Ok
    THEN [error |-> s.error, clothes |-> cl, stores |-> st, ret |-> <<>>,
          created |-> FALSE]
    ELSE LET u == UpdateOrCreate(cl, vd.title, ClotheData(vd, s.store)) IN
         [error |-> u.error, clothes |-> u.clothes, stores |-> s.stores,
          ret |-> IF u.error = Ok THEN << Instance(u.clothes, u.obj) >> ELSE <<>>,
          created |-> u.created]

\* How a caller reads the created flag off the returned instance:
\* hasattr(clothe, "_created") and clothe._created.
ReportedCreated(clothe) == "_created" \in DOMAIN clothe /\ clothe["_created"]


-----------------------------------------------------------------------------
(* ClotheSerializer and the views *)

\* Python truthiness of a nullable string column.
Truthy(v) == v # Null /\ v # Some("")

\* str(image).startswith(('http://', 'https://'))
IsAbsoluteUrl(path) == path = ImageUrl

\* Clothe.get_image_url(): the uploaded file's url unless the stored path is
\* itself an absolute URL, else image_url.
GetImageUrl(inst) ==
    IF Truthy(inst.image) /\ ~IsAbsoluteUrl(inst.image[1])
    THEN Some(<<"/media/", inst.image[1]>>)
    ELSE inst.image_url

\* min() and max() of a non-empty set of integers.
Min(S) == CHOOSE x \in S : \A y \in S : x <= y
Max(S) == CHOOSE x \in S : \A y \in S : x >= y

\* Clothe.get_price_range(): the pair (min, max) of the variants' prices in
\* pesos; variants without a price, or with a price that is false in a
\* condition (0), are left out; without variants or without any such price
\* the pair is (base_price, base_price).
ClotheGetPriceRange(obj) ==
    LET prices == { obj.variants[i].price :
                      i \in { j \in DOMAIN obj.variants :
                                /\ "price" \in DOMAIN obj.variants[j]
                                /\ obj.variants[j].price # 0 } }
    IN IF obj.variants = <<>> \/ prices = {}
       THEN << obj.base_price, obj.base_price >>
       ELSE << CentavosToPesos(Min(prices)), CentavosToPesos(Max(prices)) >>

\* float(x) if x else None, on a price in pesos or None.
FloatOrNone(x) == IF x = Null \/ x = <<0, 0>> THEN Null ELSE x

\* ClotheSerializer.get_price_range(obj)
GetPriceRange(obj) ==
    LET range == ClotheGetPriceRange(obj) IN
    IF range[1] = range[2]
    THEN [price |-> FloatOrNone(range[1])]
    ELSE [min_price |-> FloatOrNone(range[1]), max_price |-> FloatOrNone(range[2])]

\* The list of every variant's public_title, "" for a variant without one:
\* get_available_sizes without its condition.
RECURSIVE ClotheGetAvailableSizesUnfiltered(_)
ClotheGetAvailableSizesUnfiltered(obj) ==
    IF obj.variants = <<>>
    THEN <<>>
    ELSE << Get(obj.variants[1], "public_title", "") >>
         \o ClotheGetAvailableSizesUnfiltered([obj EXCEPT !.variants = Tail(obj.variants)])

\* Clothe.get_available_sizes() (ClotheSerializer.get_available_sizes
\* returns it as it is): the public_title of each variant that has a
\* non-empty one, in the variants' order.
RECURSIVE ClotheGetAvailableSizes(_)
ClotheGetAvailableSizes(obj) ==
    IF obj.variants = <<>>
    THEN <<>>
    ELSE (IF Get(obj.variants[1], "public_title", "") # ""
          THEN << obj.variants[1].public_title >>
          ELSE <<>>)
         \o ClotheGetAvailableSizes([obj EXCEPT !.variants = Tail(obj.variants)])

\* ClotheSerializer.Meta.fields
SerializedFields ==
    {"id", "name", "type", "image", "image_url", "image_display_url",
     "shopify_id", "gid", "vendor", "base_price", "variants", "user", "store",
     "created_at", "updated_at", "price_range", "available_sizes"}

\* super().to_representation(instance): every declared field, the method
\* fields computed.
Representation(inst) ==
    [k \in SerializedFields |->
        CASE k = "image_display_url" -> GetImageUrl(inst)
          [] k = "price_range" -> GetPriceRange(inst)
          [] k = "available_sizes" -> ClotheGetAvailableSizes(inst)
          [] OTHER -> inst[k]]

\* ClotheSerializer.to_representation: only the allowed fields are kept.
AllowedFields ==
    {"name", "type", "image_display_url", "user", "store", "id", "created_at",
     "updated_at"}

\* to_representation returning the data as super() built it.
ToRepresentationUnfiltered(inst) == Representation(inst)

\* filtered_data: the entries of data whose key is allowed.
ToRepresentation(inst) ==
    LET data == Representation(inst)
    IN [k \in DOMAIN data \cap AllowedFields |-> data[k]]

\* The response variable's shape; each handler fills the fields it answers
\* with.
NoResp ==
    [op |-> "none", req |-> <<>>, data |-> <<>>, status |-> 0, error |-> Ok,
     item |-> <<>>,
     errors |-> {}, reported_created |-> FALSE, created |-> 0, updated |-> 0,
     created_items |-> <<>>, updated_items |-> <<>>, saved_count |-> 0,
     sent |-> <<>>, net |-> <<>>, serialized |-> <<>>, items |-> <<>>,
     detail |-> <<>>, matched |-> <<>>]

\* The shopify_id of the row update_or_create finds under the title, as it
\* is before the write (<<>> when no row carries the title).
MatchedShopifyId(cl, title) ==
    IF ClothesNamed(cl, title) = {}
    THEN <<>>
    ELSE << cl[CHOOSE i \in ClothesNamed(cl, title) : TRUE].shopify_id >>

\* views.create_clothe_from_scraped_data on tables cl, st: the response and
\* the tables it leaves. An exception escaping the view is a 500. matched
\* notes what the upsert found, for the properties to refer to.
FromScrapedView(cl, st, body) ==
    IF ~ScrapedIsValid(body)
    THEN [clothes |-> cl, stores |-> st,
          resp |-> [NoResp EXCEPT !.op = "from_scraped", !.req = <<body>>,
                                  !.status = 400, !.errors = ScrapedErrors(body)]]
    ELSE LET r == ScrapedCreate(cl, st, body) IN
         IF r.error # Ok
         THEN [clothes |-> r.clothes, stores |-> r.stores,
               resp |-> [NoResp EXCEPT !.op = "from_scraped", !.req = <<body>>,
                                       !.status = 500, !.error = r.error]]
         ELSE [clothes |-> r.clothes, stores |-> r.stores,
               resp |-> [NoResp EXCEPT !.op = "from_scraped", !.req = <<body>>,
                                       !.status = 201,
                                       !.item = << ToRepresentation(r.ret[1]) >>,
                                       !.reported_created = ReportedCreated(r.ret[1]),
                                       !.matched = MatchedShopifyId(cl, body.title)]]

\* BulkCreateClotheSerializer.create's loop from product i on. acc holds the
\* tables and the two result lists so far; an exception ends the loop with
\* acc.error set (the writes of the earlier products are committed). Each
\* iteration's outcome is bound as a value (nxt) before the loop goes on.
RECURSIVE BulkLoop(_, _, _)
BulkLoop(acc, products, i) ==
    IF i > Len(products) \/ acc.error # Ok
    THEN acc
    ELSE IF ~ScrapedIsValid(products[i])
    THEN BulkLoop(acc, products, i + 1)
    ELSE CHOOSE out \in
           { BulkLoop(nxt, products, i + 1) :
               nxt \in { IF r.error # Ok
                         THEN [acc EXCEPT !.error = r.error, !.clothes = r.clothes,
                                          !.stores = r.stores]
                         ELSE IF ReportedCreated(r.ret[1])
                         THEN [acc EXCEPT !.clothes = r.clothes, !.stores = r.stores,
                                          !.created = Append(acc.created,
                                                             ToRepresentation(r.ret[1]))]
                         ELSE [acc EXCEPT !.clothes = r.clothes, !.stores = r.stores,
                                          !.updated = Append(acc.updated,
                                                             ToRepresentation(r.ret[1]))] :
                         r \in { ScrapedCreate(acc.clothes, acc.stores, products[i]) } } }
           : TRUE

\* BulkCreateClotheSerializer.is_valid(): products is a nested
\* CreateClotheFromScrapedDataSerializer(many=True); one invalid child makes
\* the whole request invalid.
BulkIsValid(products) == \A i \in DOMAIN products : ScrapedIsValid(products[i])

\* views.bulk_create_clothes_from_scraped_data.
BulkFromScrapedView(cl, st, products) ==
    IF ~BulkIsValid(products)
    THEN [clothes |-> cl, stores |-> st,
          resp |-> [NoResp EXCEPT !.op = "bulk_from_scraped", !.req = products,
                                  !.status = 400,
                                  !.errors = {"products"}]]
    ELSE LET r == BulkLoop([clothes |-> cl, stores |-> st, error |-> Ok,
                            created |-> <<>>, updated |-> <<>>], products, 1) IN
         IF r.error # Ok
         THEN [clothes |-> r.clothes, stores |-> r.stores,
               resp |-> [NoResp EXCEPT !.op = "bulk_from_scraped", !.req = products,
                                       !.status = 500, !.error = r.error]]
         ELSE [clothes |-> r.clothes, stores |-> r.stores,
               resp |-> [NoResp EXCEPT !.op = "bulk_from_scraped", !.req = products,
                                       !.status = 201,
                                       !.created = Len(r.created),
                                       !.updated = Len(r.updated),
                                       !.created_items = r.created,
                                       !.updated_items = r.updated]]

\* What becomes of one requests.post of the crawler: the service answers;
\* the answer arrives with a body that is not JSON (response.json() raises);
\* the service handles the request but the answer comes after the timeout
\* (requests.Timeout); the service is never reached (ConnectionError).
NetOutcomes == {"answered", "unreadable", "timeout", "connection_error"}

\* The loop of save_products_to_database ended by the first submission that
\* fails, as if nothing caught the failure.
RECURSIVE SaveLoopEndedByFailure(_, _, _, _)
SaveLoopEndedByFailure(acc, products, net, i) ==
    IF i > Len(products)
    THEN acc
    ELSE IF net[i] = "connection_error"
    THEN acc
    ELSE CHOOSE out \in
           { IF nxt.failed THEN nxt.acc
             ELSE SaveLoopEndedByFailure(nxt.acc, products, net, i + 1) :
               nxt \in { [failed |-> net[i] # "answered" \/ r.resp.status \notin {200, 201},
                          acc |-> [clothes |-> r.clothes, stores |-> r.stores,
                                   saved_count |->
                                      IF net[i] = "answered" /\ r.resp.status \in {200, 201}
                                      THEN acc.saved_count + 1 ELSE acc.saved_count,
                                   sent |-> Append(acc.sent,
                                               [product |-> products[i],
                                                status |-> IF net[i] = "timeout" THEN 0
                                                           ELSE r.resp.status])]] :
                         r \in { FromScrapedView(acc.clothes, acc.stores, products[i]) } } }
           : TRUE

\* DetailsSpider.save_products_to_database from record i on: one POST to
\* clothe/from-scraped/ per record, counting the 200/201 answers; the try
\* block catches whatever a submission raises and the loop goes on. sent
\* lists the records posted, each with the status of its answer (0: none).
RECURSIVE SaveLoop(_, _, _, _)
SaveLoop(acc, products, net, i) ==
    IF i > Len(products)
    THEN acc
    ELSE IF net[i] = "connection_error"
    THEN SaveLoop([acc EXCEPT !.sent = Append(acc.sent, [product |-> products[i],
                                                         status |-> 0])],
                  products, net, i + 1)
    ELSE CHOOSE out \in
           { SaveLoop(nxt, products, net, i + 1) :
               nxt \in { [clothes |-> r.clothes, stores |-> r.stores,
                          saved_count |-> IF net[i] # "timeout"
                                             /\ r.resp.status \in {200, 201}
                                          THEN acc.saved_count + 1
                                          ELSE acc.saved_count,
                          sent |-> Append(acc.sent,
                                      [product |-> products[i],
                                       status |-> IF net[i] = "timeout" THEN 0
                                                  ELSE r.resp.status])] :
                         r \in { FromScrapedView(acc.clothes, acc.stores, products[i]) } } }
           : TRUE

SaveProductsToDatabase(cl, st, products, net) ==
    SaveLoop([clothes |-> cl, stores |-> st, saved_count |-> 0, sent |-> <<>>],
             products, net, 1)

\* The network at its best: every submission is answered.
AllAnswered(products) == [i \in DOMAIN products |-> "answered"]


\* Request data of POST clothe/ (ClotheSerializer's writable fields that
\* matter here; an omitted key is an omitted field).
ClotheCreateData ==
    { [name |-> t, image_url |-> Some(ImageUrl), user |-> Some(u)] :
        t \in Titles, u \in Users }
    \cup { [name |-> "A", image_url |-> Some(ImageUrl), store |-> Some(1)],
           [name |-> "A", image_url |-> Some(ImageUrl)],
           [name |-> "A", image_url |-> Some(ImageUrl), user |-> Some(1),
            store |-> Some(1)],
           [name |-> "B", user |-> Some(1)],
           [name |-> "B", image_url |-> Some(ImageUrl), user |-> Some(1),
            shopify_id |-> Some(1)] }

\* Request data of PUT clothe/<id>/: name is the one required field.
ClotheUpdateData ==
    { [name |-> t] : t \in Titles }
    \cup { [name |-> t, user |-> Some(u), store |-> Null] : t \in Titles, u \in Users }
    \cup { [name |-> "A", user |-> Null, store |-> Some(1)],
           [name |-> "A", user |-> Some(1)],
           [name |-> "B", shopify_id |-> Some(1)],
           [name |-> "B", image_url |-> Null] }

\* ClotheSerializer's field validation: the UniqueValidator the
\* ModelSerializer derives from shopify_id's unique=True, and the
\* PrimaryKeyRelatedFields of user and store. self is the instance's id (0
\* on create).
ClotheFieldErrors(cl, st, data, self) ==
    {f \in {"shopify_id"} \cap DOMAIN data : ~ShopifyIdUnique(cl, data, self)} \cup
    {f \in {"user"} \cap DOMAIN data : data.user # Null /\ data.user[1] \notin Users} \cup
    {f \in {"store"} \cap DOMAIN data :
        data.store # Null /\ data.store[1] \notin DOMAIN st}

\* ClotheSerializer.validate: either image or image_url must be provided; on
\* an update the check runs only when one of the two is in the data, and the
\* instance's values stand in for the one not provided.
ClotheValidate(data, instance) ==
    IF instance = <<>> \/ "image" \in DOMAIN data \/ "image_url" \in DOMAIN data
    THEN LET given_image == Get(data, "image", Null)
             given_url == Get(data, "image_url", Null)
             image == IF instance # <<>> /\ ~Truthy(given_image)
                      THEN instance[1].image ELSE given_image
             image_url == IF instance # <<>> /\ ~Truthy(given_url)
                          THEN instance[1].image_url ELSE given_url
         IN Truthy(image) \/ Truthy(image_url)
    ELSE TRUE

\* ClotheListCreateView.post (generics.ListCreateAPIView): validate, then
\* Clothe.objects.create(**validated_data). The owner check constraint is
\* the database's: a row that breaks it is an IntegrityError, a 500.
ClotheCreateView(cl, st, data) ==
    LET errs == ClotheFieldErrors(cl, st, data, 0)
        row == PreSaveAdd(SetAttrs(ClotheDefaults, data))
        base == [NoResp EXCEPT !.op = "clothe_create"]
    IN IF errs # {}
       THEN [clothes |-> cl, resp |-> [base EXCEPT !.status = 400, !.errors = errs]]
       ELSE IF ~ClotheValidate(data, <<>>)
       THEN [clothes |-> cl,
             resp |-> [base EXCEPT !.status = 400, !.errors = {"non_field_errors"}]]
       ELSE IF ~ClotheWriteAllowed(cl, row, 0)
       THEN [clothes |-> cl,
             resp |-> [base EXCEPT !.status = 500, !.error = IntegrityError]]
       ELSE [clothes |-> Append(cl, row),
             resp |-> [base EXCEPT !.status = 201,
                         !.item = << ToRepresentation(Instance(Append(cl, row),
                                                               Len(cl) + 1)) >>]]

\* ClotheDetailView.put (generics.RetrieveUpdateDestroyAPIView): 404 for an
\* unknown id; validate; setattr the validated fields on the instance; save.
ClotheUpdateView(cl, st, id, data) ==
    LET base == [NoResp EXCEPT !.op = "clothe_update"] IN
    IF id \notin DOMAIN cl
    THEN [clothes |-> cl, resp |-> [base EXCEPT !.status = 404]]
    ELSE LET errs == ClotheFieldErrors(cl, st, data, id)
             row == PreSave(SetAttrs(cl[id], data))
         IN IF errs # {}
            THEN [clothes |-> cl, resp |-> [base EXCEPT !.status = 400, !.errors = errs]]
            ELSE IF ~ClotheValidate(data, << cl[id] >>)
            THEN [clothes |-> cl,
                  resp |-> [base EXCEPT !.status = 400, !.errors = {"non_field_errors"}]]
            ELSE IF ~ClotheWriteAllowed(cl, row, id)
            THEN [clothes |-> cl,
                  resp |-> [base EXCEPT !.status = 500, !.error = IntegrityError]]
            ELSE [clothes |-> [cl EXCEPT ![id] = row],
                  resp |-> [base EXCEPT !.status = 200,
                              !.item = << ToRepresentation(
                                            Instance([cl EXCEPT ![id] = row], id)) >>]]

\* ClotheDetailView.get (GET clothe/<id>/): 404 for an unknown id, else the
\* serialized row; serialized is the data to_representation filters.
ClotheRetrieveView(cl, id) ==
    LET base == [NoResp EXCEPT !.op = "clothe_retrieve", !.req = <<id>>] IN
    IF id \notin DOMAIN cl
    THEN [base EXCEPT !.status = 404]
    ELSE [base EXCEPT !.status = 200,
                      !.item = << ToRepresentation(Instance(cl, id)) >>,
                      !.serialized = << Representation(Instance(cl, id)) >>]

\* The orders .order_by("-created_at") may return the rows ids in: newest
\* first, rows of one time in any order.
NewestFirst(cl, ids) ==
    { o \in [1 .. Cardinality(ids) -> ids] :
        /\ \A a, b \in DOMAIN o : a # b => o[a] # o[b]
        /\ \A a, b \in DOMAIN o : a < b => cl[o[a]].created_at >= cl[o[b]].created_at }

\* vendor__icontains on the texts of the model.
VendorContains(vendor, text) == vendor # Null /\ text = "REHAB" /\ vendor[1] = VendorIn

\* ClotheListCreateView.get_queryset: the rows the type and vendor query
\* parameters leave ("" is a parameter not given).
ClotheQueryset(cl, clothe_type, vendor) ==
    { i \in DOMAIN cl :
        /\ clothe_type # "" => cl[i].type = clothe_type
        /\ vendor # "" => VendorContains(cl[i].vendor, vendor) }

\* ClotheListCreateView.get (GET clothe/all/): the serialized rows of the
\* queryset in the order the database returned them.
ClotheListView(cl, clothe_type, vendor, order) ==
    [NoResp EXCEPT !.op = "clothe_list",
                   !.req = << [type |-> clothe_type, vendor |-> vendor] >>,
                   !.status = 200,
                   !.items = [k \in DOMAIN order |->
                                 ToRepresentation(Instance(cl, order[k]))]]

-----------------------------------------------------------------------------
(* OutfitSerializer and the outfit views *)

\* The components field the ModelSerializer builds for the many-to-many
\* relation (PrimaryKeyRelatedField, many=True, allow_empty=False): an empty
\* list and an id without a row are errors, else the ids become Clothe
\* objects.
ComponentsField(cl, ids) ==
    IF ids = <<>>
    THEN [error |-> "empty", value |-> <<>>]
    ELSE IF \E i \in DOMAIN ids : ids[i] \notin DOMAIN cl
    THEN [error |-> "does_not_exist", value |-> <<>>]
    ELSE [error |-> Ok, value |-> [i \in DOMAIN ids |-> Instance(cl, ids[i])]]

\* The outcome of validate_components: Ok, or the error raised with the ids
\* or the groups its message lists.
ComponentsOutcome(error, missing_ids, missing_types) ==
    [error |-> error, missing_ids |-> missing_ids, missing_types |-> missing_types]

\* validate_components with the test for accessories left out.
ValidateComponentsWithoutAccessories(cl, value, objects) ==
    LET by_objects == value # <<>> /\ objects
        clothing_ids == IF by_objects THEN { value[i].id : i \in DOMAIN value }
                        ELSE { value[i] : i \in DOMAIN value }
        found == clothing_ids \cap DOMAIN cl
        present_types == IF by_objects THEN { value[i].type : i \in DOMAIN value }
                         ELSE { cl[id].type : id \in found }
        missing_types ==
            (IF present_types \cap {"PANTS", "SHORTS"} = {}
             THEN << "Pants or Shorts" >> ELSE <<>>)
            \o (IF "POLERA" \notin present_types THEN << "Polera" >> ELSE <<>>)
    IN IF ~by_objects /\ Cardinality(found) # Len(value)
       THEN ComponentsOutcome("do_not_exist", clothing_ids \ found, <<>>)
       ELSE IF missing_types # <<>>
       THEN ComponentsOutcome("missing_types", {}, missing_types)
       ELSE ComponentsOutcome(Ok, {}, <<>>)

\* OutfitSerializer.validate_components(value). objects tells whether value
\* holds Clothe objects (hasattr(value[0], 'id')) or integers; an empty
\* value takes the integer branch. Clothe.objects.filter(id__in=...) finds
\* each row once, whatever the list repeats.
ValidateComponents(cl, value, objects) ==
    LET by_objects == value # <<>> /\ objects
        clothing_ids == IF by_objects THEN { value[i].id : i \in DOMAIN value }
                        ELSE { value[i] : i \in DOMAIN value }
        found == clothing_ids \cap DOMAIN cl
        present_types == IF by_objects THEN { value[i].type : i \in DOMAIN value }
                         ELSE { cl[id].type : id \in found }
        missing_types ==
            (IF present_types \cap {"PANTS", "SHORTS"} = {}
             THEN << "Pants or Shorts" >> ELSE <<>>)
            \o (IF "ACCESSORIES" \notin present_types THEN << "Accessories" >> ELSE <<>>)
            \o (IF "POLERA" \notin present_types THEN << "Polera" >> ELSE <<>>)
    IN IF ~by_objects /\ Cardinality(found) # Len(value)
       THEN ComponentsOutcome("do_not_exist", clothing_ids \ found, <<>>)
       ELSE IF missing_types # <<>>
       THEN ComponentsOutcome("missing_types", {}, missing_types)
       ELSE ComponentsOutcome(Ok, {}, <<>>)

\* Outfit.objects.filter(user=user, name=name)
OutfitsOf(of, user, name) ==
    { i \in DOMAIN of : of[i].user = user /\ of[i].name = name }

\* OutfitSerializer.validate with its condition inverted: the duplicate
\* test runs on updates and not on creation.
OutfitValidateOnUpdateOnly(of, data, instance) ==
    IF instance # <<>> /\ data.name # ""
    THEN OutfitsOf(of, data.user, data.name) = {}
    ELSE TRUE

\* OutfitSerializer.validate: on creation (no instance) an outfit of the
\* same user with the same name is a validation error.
OutfitValidate(of, data, instance) ==
    IF instance = <<>> /\ data.name # ""
    THEN OutfitsOf(of, data.user, data.name) = {}
    ELSE TRUE

\* The field validation of OutfitSerializer on complete request data: user
\* must be a row of User, name not blank, rating within 1..5, components
\* pass their field and validate_components.
OutfitFieldErrors(cl, data) ==
    {f \in {"user"} : data.user \notin Users} \cup
    {f \in {"name"} : data.name = ""} \cup
    {f \in {"rating"} : data.rating \notin 1 .. 5} \cup
    {f \in {"components"} :
        \E c \in { ComponentsField(cl, data.components) } :
            \/ c.error # Ok
            \/ ValidateComponents(cl, c.value, TRUE).error # Ok}

\* What the answer tells about the components.
ComponentsDetail(cl, ids) ==
    CHOOSE d \in
      { IF c.error # Ok THEN ComponentsOutcome(c.error, {}, <<>>)
        ELSE ValidateComponents(cl, c.value, TRUE) :
          c \in { ComponentsField(cl, ids) } } : TRUE

\* OutfitListCreateView.post (generics.ListCreateAPIView): field validation,
\* validate, then Outfit.objects.create and components.set.
OutfitCreateView(cl, of, data) ==
    LET errs == OutfitFieldErrors(cl, data)
        base == [NoResp EXCEPT !.op = "outfit_create", !.req = <<data>>,
                               !.detail = << ComponentsDetail(cl, data.components) >>]
        row == [user |-> data.user, name |-> data.name, rating |-> data.rating,
                components |-> { data.components[i] : i \in DOMAIN data.components },
                created_at |-> now, updated_at |-> now]
    IN IF errs # {}
       THEN [outfits |-> of, resp |-> [base EXCEPT !.status = 400, !.errors = errs]]
       ELSE IF ~OutfitValidate(of, data, <<>>)
       THEN [outfits |-> of,
             resp |-> [base EXCEPT !.status = 400, !.errors = {"non_field_errors"}]]
       ELSE [outfits |-> Append(of, row),
             resp |-> [base EXCEPT !.status = 201,
                          !.item = << With(row, "id", Len(of) + 1) >>]]

-----------------------------------------------------------------------------
(* DetailsSpider: the page extractor. Text is a sequence of characters; a   *)
(* value parsed from JSON is the pair <<type, content>>; a Python dict is   *)
(* a function from its keys.                                                *)

JNull == <<"null", <<>>>>
JInt(n) == <<"int", n>>
JStr(s) == <<"str", s>>
JList(l) == <<"list", l>>
JDict(d) == <<"dict", d>>

\* {}.
EmptyDict == [k \in {} |-> JNull]

\* An exception leaving a call.
Raised(name) == <<"raise", name>>
IsRaised(x) == x[1] = "raise"

\* Python truthiness of a parsed value.
JTruthy(x) ==
    CASE x[1] = "null" -> FALSE
      [] x[1] = "int" -> x[2] # 0
      [] x[1] = "dict" -> DOMAIN x[2] # {}
      [] OTHER -> x[2] # <<>>

\* x.get(key, default): AttributeError unless x is a dict.
PyGet(x, key, default) ==
    IF x[1] # "dict" THEN Raised("AttributeError")
    ELSE IF key \in DOMAIN x[2] THEN x[2][key] ELSE default

\* str.startswith(prefix)
StartsWith(s, prefix) ==
    Len(s) >= Len(prefix) /\ SubSeq(s, 1, Len(prefix)) = prefix

\* str.lstrip(c)
RECURSIVE LStrip(_, _)
LStrip(s, c) == IF s # <<>> /\ s[1] = c THEN LStrip(Tail(s), c) ELSE s

\* str.find(sub) + 1: the first position where sub occurs in s, 0 if none.
Find(s, sub) ==
    LET hits == { i \in 1 .. (Len(s) - Len(sub) + 1) :
                    SubSeq(s, i, i + Len(sub) - 1) = sub }
    IN IF hits = {} THEN 0 ELSE CHOOSE i \in hits : \A j \in hits : i <= j

Digits == <<"0", "1", "2", "3", "4", "5", "6", "7", "8", "9">>

IsDigit(c) == \E d \in DOMAIN Digits : Digits[d] = c
DigitValue(c) == (CHOOSE d \in DOMAIN Digits : Digits[d] = c) - 1

\* int(text) for a string of decimal digits.
RECURSIVE ParseDigits(_)
ParseDigits(s) ==
    IF s = <<>> THEN 0
    ELSE ParseDigits(SubSeq(s, 1, Len(s) - 1)) * 10 + DigitValue(s[Len(s)])

\* int(x): the number itself, the number a digit string spells, ValueError
\* for any other string.
PyInt(x) ==
    IF x[1] = "int" THEN x
    ELSE IF x[2] # <<>> /\ \A i \in DOMAIN x[2] : IsDigit(x[2][i])
    THEN JInt(ParseDigits(x[2]))
    ELSE Raised("ValueError")

\* str(n) for n >= 0.
RECURSIVE IntToText(_)
IntToText(n) ==
    IF n < 10 THEN << Digits[n + 1] >>
    ELSE Append(IntToText(n \div 10), Digits[(n % 10) + 1])

HttpsPrefix == <<"h", "t", "t", "p", "s", ":">>
HttpText == <<"h", "t", "t", "p">>
Slash == <<"/">>
\* "https://rehabclo.cl"
Origin ==
    HttpsPrefix \o <<"/", "/", "r", "e", "h", "a", "b", "c", "l", "o", ".", "c", "l">>

Letters ==
    {"a", "b", "c", "d", "e", "f", "g", "h", "i", "j", "k", "l", "m", "n", "o",
     "p", "q", "r", "s", "t", "u", "v", "w", "x", "y", "z"}

\* The characters urllib.parse allows in a scheme.
SchemeChars == Letters \cup { Digits[d] : d \in DOMAIN Digits } \cup {"+", "-", "."}

\* urlparse(url).scheme: the text before the first ":" when it starts with
\* a letter and holds scheme characters only, else "".
UrlScheme(url) ==
    LET i == Find(url, <<":">>) IN
    IF i > 1 /\ url[1] \in Letters /\ \A j \in 1 .. (i - 1) : url[j] \in SchemeChars
    THEN SubSeq(url, 1, i - 1)
    ELSE <<>>

\* urlparse(url).netloc: what follows "//" after the scheme, up to the next
\* "/", "?" or "#".
UrlNetloc(url) ==
    LET rest == IF UrlScheme(url) = <<>> THEN url
                ELSE SubSeq(url, Len(UrlScheme(url)) + 2, Len(url))
    IN IF ~StartsWith(rest, <<"/", "/">>) THEN <<>>
       ELSE LET after == SubSeq(rest, 3, Len(rest))
                ends == { i \in DOMAIN after : after[i] \in {"/", "?", "#"} }
            IN IF ends = {} THEN after
               ELSE SubSeq(after, 1, (CHOOSE i \in ends : \A j \in ends : i <= j) - 1)

\* The image path made absolute (the if/elif chain on image_src).
NormalizeImageSrc(image_src) ==
    IF StartsWith(image_src, <<"/", "/">>) THEN HttpsPrefix \o image_src
    ELSE IF StartsWith(image_src, Slash) THEN Origin \o image_src
    ELSE IF ~StartsWith(image_src, HttpText)
    THEN Origin \o Slash \o LStrip(image_src, "/")
    ELSE image_src

\* image_mapping[key] = image_url
DictSet(mapping, key, value) ==
    [k \in DOMAIN mapping \cup {key} |-> IF k = key THEN value ELSE mapping[k]]

\* One pass of the loop over product_variants, on the state acc so far
\* (error, image_mapping, the lines printed). An AttributeError of a .get or
\* of startswith leaves the loop; what the inner try raises is caught.
MapVariant(acc, variant) ==
    LET product_info == PyGet(variant, "product", JDict(EmptyDict))
        product_id == IF IsRaised(product_info) THEN product_info
                      ELSE PyGet(product_info, "id", JNull)
        image_info == PyGet(variant, "image", JDict(EmptyDict))
        image_src == IF IsRaised(image_info) THEN image_info
                     ELSE PyGet(image_info, "src", JStr(<<>>))
    IN IF IsRaised(product_id) THEN [acc EXCEPT !.error = product_id[2]]
       ELSE IF IsRaised(image_src) THEN [acc EXCEPT !.error = image_src[2]]
       ELSE IF ~(JTruthy(product_id) /\ JTruthy(image_src)) THEN acc
       ELSE IF image_src[1] # "str" THEN [acc EXCEPT !.error = "AttributeError"]
       ELSE LET image_url == NormalizeImageSrc(image_src[2]) IN
            IF UrlScheme(image_url) # <<>> /\ UrlNetloc(image_url) # <<>>
            THEN IF IsRaised(PyInt(product_id))
                 THEN [acc EXCEPT !.log = Append(@, [event |-> "error",
                                                     src |-> image_src[2],
                                                     url |-> image_url])]
                 ELSE [acc EXCEPT
                         !.image_mapping = DictSet(@, PyInt(product_id)[2], image_url),
                         !.log = Append(@, [event |-> "mapped", src |-> image_src[2],
                                            url |-> image_url])]
            ELSE [acc EXCEPT !.log = Append(@, [event |-> "invalid",
                                                src |-> image_src[2],
                                                url |-> image_url])]

\* The for loop over product_variants from entry i on.
RECURSIVE MapVariants(_, _, _)
MapVariants(acc, product_variants, i) ==
    IF i > Len(product_variants) \/ acc.error # Ok
    THEN acc
    ELSE CHOOSE out \in
           { MapVariants(nxt, product_variants, i + 1) :
               nxt \in { MapVariant(acc, product_variants[i]) } }
           : TRUE

\* DetailsSpider.extract_images_from_web_pixels(html). html.pixels is what
\* the search for the collection_viewed call and json.loads make of the
\* page: no match ("absent"), a match that does not parse ("malformed"), or
\* the parsed object ("json", data).
ExtractImagesFromWebPixels(html) ==
    LET start == [error |-> Ok, image_mapping |-> EmptyDict, log |-> <<>>] IN
    IF html.pixels.kind # "json"
    THEN start
    ELSE LET collection == PyGet(html.pixels.data, "collection", JDict(EmptyDict))
             product_variants == PyGet(collection, "productVariants", JList(<<>>))
         IN IF IsRaised(product_variants)
            THEN [start EXCEPT !.error = product_variants[2]]
            ELSE MapVariants(start, product_variants[2], 1)

\* DetailsSpider.extract_meta_products(html). html.meta is what the search
\* for the "var meta = {...};" assignment and json.loads make of the page.
ExtractMetaProducts(html) ==
    IF html.meta.kind # "json"
    THEN <<>>
    ELSE PyGet(html.meta.data, "products", JList(<<>>))[2]

SeparatorText == <<" ", "-", " ">>
ProductText == <<"P", "r", "o", "d", "u", "c", "t", " ">>
UnknownText == <<"U", "n", "k", "n", "o", "w", "n">>
NoneText == <<"N", "o", "n", "e">>

\* str(x) as an f-string formats it.
PyStr(x) ==
    CASE x[1] = "int" -> IntToText(x[2])
      [] x[1] = "null" -> NoneText
      [] OTHER -> x[2]

\* The first of the given fields that product.get(field) finds truthy, as
\* <<value>>; <<>> when there is none.
RECURSIVE FirstTruthyField(_, _)
FirstTruthyField(product, fields) ==
    IF fields = <<>> THEN <<>>
    ELSE IF JTruthy(PyGet(product, fields[1], JNull))
    THEN << product[2][fields[1]] >>
    ELSE FirstTruthyField(product, Tail(fields))

\* extract_product_name trying name before title.
ExtractProductNameNameFirst(product) ==
    IF product[1] # "dict" THEN Raised("AttributeError")
    ELSE LET named == FirstTruthyField(product, <<"name", "title", "product_title">>)
             variants == PyGet(product, "variants", JNull)
             floor == JStr(ProductText \o PyStr(PyGet(product, "id", JStr(UnknownText))))
         IN IF named # <<>> THEN named[1]
            ELSE IF JTruthy(variants) /\ Len(variants[2]) > 0
            THEN LET variant_name == PyGet(variants[2][1], "name", JStr(<<>>)) IN
                 IF IsRaised(variant_name) THEN variant_name
                 ELSE IF ~JTruthy(variant_name) THEN floor
                 ELSE IF variant_name[1] # "str" THEN Raised("TypeError")
                 ELSE IF Find(variant_name[2], SeparatorText) = 0 THEN floor
                 ELSE JStr(SubSeq(variant_name[2], 1,
                                  Find(variant_name[2], SeparatorText) - 1))
            ELSE floor

\* DetailsSpider.extract_product_name(product): the name, or the exception
\* raised on the way.
ExtractProductName(product) ==
    IF product[1] # "dict" THEN Raised("AttributeError")
    ELSE LET named == FirstTruthyField(product, <<"title", "name", "product_title">>)
             variants == PyGet(product, "variants", JNull)
             floor == JStr(ProductText \o PyStr(PyGet(product, "id", JStr(UnknownText))))
         IN IF named # <<>> THEN named[1]
            ELSE IF JTruthy(variants) /\ Len(variants[2]) > 0
            THEN LET variant_name == PyGet(variants[2][1], "name", JStr(<<>>)) IN
                 IF IsRaised(variant_name) THEN variant_name
                 ELSE IF ~JTruthy(variant_name) THEN floor
                 ELSE IF variant_name[1] # "str" THEN Raised("TypeError")
                 ELSE IF Find(variant_name[2], SeparatorText) = 0 THEN floor
                 ELSE JStr(SubSeq(variant_name[2], 1,
                                  Find(variant_name[2], SeparatorText) - 1))
            ELSE floor

\* image_mapping.get(product_id, ""): the keys are ints; a key of another
\* type equals none of them.
MappingGet(image_mapping, product_id) ==
    IF product_id[1] = "int" /\ product_id[2] \in DOMAIN image_mapping
    THEN image_mapping[product_id[2]]
    ELSE <<>>

\* process_product_data dropping a record only for a missing id.
ProcessProductDataIdOnly(raw_product, image_mapping) ==
    IF raw_product[1] # "dict" THEN JNull
    ELSE LET product_id == PyGet(raw_product, "id", JNull)
             title == ExtractProductName(raw_product)
         IN IF IsRaised(title) THEN JNull
            ELSE IF ~JTruthy(product_id) THEN JNull
            ELSE JDict([id |-> product_id,
                        gid |-> PyGet(raw_product, "gid", JStr(<<>>)),
                        vendor |-> PyGet(raw_product, "vendor", JStr(<<>>)),
                        type |-> PyGet(raw_product, "type", JStr(<<>>)),
                        title |-> title,
                        variants |-> PyGet(raw_product, "variants", JList(<<>>)),
                        image_url |-> JStr(MappingGet(image_mapping, product_id))])

\* DetailsSpider.process_product_data(raw_product, image_mapping): the
\* product_data dict, or None (JNull) for a record without id or title and
\* for any exception.
ProcessProductData(raw_product, image_mapping) ==
    IF raw_product[1] # "dict" THEN JNull
    ELSE LET product_id == PyGet(raw_product, "id", JNull)
             title == ExtractProductName(raw_product)
         IN IF IsRaised(title) THEN JNull
            ELSE IF ~JTruthy(product_id) \/ ~JTruthy(title) THEN JNull
            ELSE JDict([id |-> product_id,
                        gid |-> PyGet(raw_product, "gid", JStr(<<>>)),
                        vendor |-> PyGet(raw_product, "vendor", JStr(<<>>)),
                        type |-> PyGet(raw_product, "type", JStr(<<>>)),
                        title |-> title,
                        variants |-> PyGet(raw_product, "variants", JList(<<>>)),
                        image_url |-> JStr(MappingGet(image_mapping, product_id))])

\* The loop of extract_products_from_js over meta_products from i on.
RECURSIVE ProcessProducts(_, _, _, _)
ProcessProducts(products, meta_products, image_mapping, i) ==
    IF i > Len(meta_products)
    THEN products
    ELSE CHOOSE out \in
           { ProcessProducts(IF JTruthy(processed) THEN Append(products, processed)
                             ELSE products,
                             meta_products, image_mapping, i + 1) :
               processed \in { ProcessProductData(meta_products[i], image_mapping) } }
           : TRUE

\* DetailsSpider.extract_products_from_js(response) on the page html: the
\* list returned (products), or the exception that left the method (error),
\* with the locals meta_products and image_mapping and the lines the image
\* stage printed.
ExtractProductsFromJs(html) ==
    LET meta_products == ExtractMetaProducts(html)
        images == ExtractImagesFromWebPixels(html)
    IN [error |-> images.error,
        meta_products |-> meta_products,
        image_mapping |-> images.image_mapping,
        log |-> images.log,
        products |-> IF images.error # Ok THEN <<>>
                     ELSE ProcessProducts(<<>>, meta_products, images.image_mapping, 1)]

-----------------------------------------------------------------------------
(* request.data of the ingestion endpoint as the JSON parser hands it over: *)
(* a dict of <<type, content>> values, and the field validation             *)
(* CreateClotheFromScrapedDataSerializer.is_valid() runs on it.             *)

JBool(b) == <<"bool", b>>

\* The declared fields and their classes.
FieldKinds ==
    [id |-> "IntegerField", gid |-> "CharField", vendor |-> "CharField",
     type |-> "CharField", title |-> "CharField", variants |-> "ListField",
     image_url |-> "URLField"]

\* image_url is declared required=False.
OptionalFields == {"image_url"}

\* The integers a JSON string of the model's requests can spell.
IntegerTexts == [n \in 0 .. 9 |-> ToString(n)]
SpellsInteger(s) == \E n \in DOMAIN IntegerTexts : IntegerTexts[n] = s

\* URLValidator on the texts of the model's requests.
IsUrl(s) == s = ImageUrl

\* Whether a field of the given class takes the value v: IntegerField takes
\* an integer or a string spelling one; CharField a non-blank string or a
\* number; ListField(child=DictField()) a list of dicts; URLField
\* (allow_blank, allow_null) null, "" or a URL.
FieldAccepts(kind, v) ==
    CASE kind = "IntegerField" ->
            v[1] = "int" \/ (v[1] = "str" /\ SpellsInteger(v[2]))
      [] kind = "CharField" -> v[1] = "int" \/ (v[1] = "str" /\ v[2] # "")
      [] kind = "ListField" ->
            v[1] = "list" /\ \A i \in DOMAIN v[2] : v[2][i][1] = "dict"
      [] kind = "URLField" ->
            v[1] = "null" \/ (v[1] = "str" /\ (v[2] = "" \/ IsUrl(v[2])))

\* The validated value of an accepted value: int(v), str(v), the list of the
\* children's dicts (DictField leaves a dict's values as they are).
FieldValue(kind, v) ==
    CASE kind = "IntegerField" ->
            IF v[1] = "int" THEN v[2]
            ELSE CHOOSE n \in DOMAIN IntegerTexts : IntegerTexts[n] = v[2]
      [] kind = "CharField" -> IF v[1] = "int" THEN ToString(v[2]) ELSE v[2]
      [] kind = "ListField" -> [i \in DOMAIN v[2] |-> v[2][i][2]]
      [] kind = "URLField" -> v[2]

\* serializer.errors: the declared fields that are required and absent, or
\* present with a value the field does not take.
FieldErrors(data) ==
    { f \in DOMAIN FieldKinds :
        IF f \in DOMAIN data THEN ~FieldAccepts(FieldKinds[f], data[f])
        ELSE f \notin OptionalFields }

\* serializer.validated_data: the declared fields present in the data, each
\* with its validated value; undeclared keys are dropped.
ToInternalValue(data) ==
    [f \in DOMAIN data \cap DOMAIN FieldKinds |-> FieldValue(FieldKinds[f], data[f])]

\* views.create_clothe_from_scraped_data on request.data: 400 with
\* serializer.errors when is_valid() fails, else save() and the item.
CreateClotheFromScrapedData(cl, st, data) ==
    IF FieldErrors(data) # {}
    THEN [clothes |-> cl, stores |-> st,
          resp |-> [NoResp EXCEPT !.op = "from_scraped", !.data = <<data>>,
                                  !.status = 400, !.errors = FieldErrors(data)]]
    ELSE CHOOSE out \in
           { [r EXCEPT !.resp.data = <<data>>] :
               r \in { FromScrapedView(cl, st, ToInternalValue(data)) } } : TRUE

-----------------------------------------------------------------------------
(* Spec: the handlers, one request at a time *)

\* Records of bulk requests and crawls: two titles under one vendor id, one
\* title under two vendor ids, and one record without id.
BatchPayload ==
    [type |-> "Shorts", variants |-> << Variant(3799000, "S/28US") >>,
     image_url |-> ImageUrl]

BatchBodies ==
    { FullBody(1, "A", BatchPayload), FullBody(2, "A", BatchPayload),
      FullBody(1, "B", BatchPayload),
      Without(FullBody(2, "B", BatchPayload), "id") }

RECURSIVE SeqsUpTo(_, _)
SeqsUpTo(S, n) ==
    IF n = 0 THEN { <<>> }
    ELSE LET shorter == SeqsUpTo(S, n - 1) IN
         shorter \cup { Append(q, x) : q \in shorter, x \in S }

Batches == SeqsUpTo(BatchBodies, MaxBatch)

IdleWorkers ==
    /\ pc = [w \in Workers |-> "idle"]
    /\ wreq = [w \in Workers |-> <<>>]
    /\ wstore = [w \in Workers |-> 0]
    /\ wobj = [w \in Workers |-> 0]
    /\ wres = [w \in Workers |-> "none"]

\* No page fetched, nothing extracted.
NoPage == [meta |-> [kind |-> "absent"], pixels |-> [kind |-> "absent"]]
NoOut == [done |-> FALSE]

Init ==
    /\ clothes = <<>>
    /\ stores = <<>>
    /\ resp = NoResp
    /\ IdleWorkers
    /\ page = NoPage
    /\ extracted = NoOut
    /\ now = 0
    /\ outfits = <<>>

workerVars == <<pc, wreq, wstore, wobj, wres>>
extractVars == <<page, extracted>>

\* POST clothe/from-scraped/
FromScraped(body) ==
    \E r \in { FromScrapedView(clothes, stores, body) } :
    /\ Len(r.clothes) <= MaxRows
    /\ clothes' = r.clothes
    /\ stores' = r.stores
    /\ resp' = r.resp
    /\ UNCHANGED <<workerVars, extractVars, now, outfits>>

\* POST clothe/bulk-from-scraped/
BulkFromScraped(products) ==
    \E r \in { BulkFromScrapedView(clothes, stores, products) } :
    /\ Len(r.clothes) <= MaxRows
    /\ clothes' = r.clothes
    /\ stores' = r.stores
    /\ resp' = r.resp
    /\ UNCHANGED <<workerVars, extractVars, now, outfits>>

\* One crawl: DetailsSpider.parse hands the extracted records to
\* save_products_to_database.
Crawl(products) ==
    \E r \in { SaveProductsToDatabase(clothes, stores, products,
                                      AllAnswered(products)) } :
    /\ Len(r.clothes) <= MaxRows
    /\ clothes' = r.clothes
    /\ stores' = r.stores
    /\ resp' = [NoResp EXCEPT !.op = "crawl", !.req = products,
                              !.saved_count = r.saved_count, !.sent = r.sent]
    /\ UNCHANGED <<workerVars, extractVars, now, outfits>>

\* POST clothe/
ClotheCreate(data) ==
    \E r \in { ClotheCreateView(clothes, stores, data) } :
    /\ Len(r.clothes) <= MaxRows
    /\ clothes' = r.clothes
    /\ resp' = r.resp
    /\ UNCHANGED <<stores, workerVars, extractVars, now, outfits>>

\* PUT clothe/<id>/
ClotheUpdate(id, data) ==
    \E r \in { ClotheUpdateView(clothes, stores, id, data) } :
    /\ clothes' = r.clothes
    /\ resp' = r.resp
    /\ UNCHANGED <<stores, workerVars, extractVars, now, outfits>>

Next ==
    \/ \E body \in ScrapedBodies : FromScraped(body)
    \/ \E data \in ClotheCreateData : ClotheCreate(data)
    \/ \E id \in 1 .. MaxRows, data \in ClotheUpdateData : ClotheUpdate(id, data)

Spec == Init /\ [][Next]_vars

\* SpecUpsert: single-record ingestion alone.
NextUpsert == \E body \in ScrapedBodies : FromScraped(body)

SpecUpsert == Init /\ [][NextUpsert]_vars

\* SpecBatch: bulk requests and crawls, with user-created rows beside them.
NextBatch ==
    \/ \E products \in Batches : BulkFromScraped(products)
    \/ \E products \in Batches : Crawl(products)
    \/ \E data \in ClotheCreateData : ClotheCreate(data)

SpecBatch == Init /\ [][NextBatch]_vars


-----------------------------------------------------------------------------
(* SpecConc: concurrent POST clothe/from-scraped/ requests. Each query of  *)
(* CreateClotheFromScrapedDataSerializer.create is one step; a write is     *)
(* visible to the other workers as soon as its step is taken (each          *)
(* statement commits: READ COMMITTED, no transaction around the view).      *)

ConcBodies == BatchBodies

\* select_for_update(): row id is locked by a worker other than w that has
\* read it inside update_or_create's transaction and not yet saved.
LockedByOther(w, id) ==
    \E v \in Workers : v # w /\ pc[v] = "clothe_save" /\ wobj[v] = id

\* The handler finishes: the worker is idle again and keeps its outcome.
Finish(w, outcome) ==
    /\ pc' = [pc EXCEPT ![w] = "idle"]
    /\ wres' = [wres EXCEPT ![w] = outcome]

\* The view receives a request and validates it.
Begin(w, body) ==
    /\ pc[w] = "idle"
    /\ wreq' = [wreq EXCEPT ![w] = <<body>>]
    /\ wstore' = [wstore EXCEPT ![w] = 0]
    /\ wobj' = [wobj EXCEPT ![w] = 0]
    /\ IF ScrapedIsValid(body)
       THEN /\ pc' = [pc EXCEPT ![w] = "store_get"]
            /\ wres' = [wres EXCEPT ![w] = "running"]
       ELSE Finish(w, "400")
    /\ UNCHANGED <<clothes, stores, resp, extractVars, now, outfits>>

\* Store.objects.get_or_create, the get.
StoreGet(w) ==
    /\ pc[w] = "store_get"
    /\ LET found == StoresNamed(stores, RehabcloName) IN
       IF Cardinality(found) > 1
       THEN Finish(w, MultipleObjectsReturned) /\ UNCHANGED wstore
       ELSE IF found # {}
       THEN /\ wstore' = [wstore EXCEPT ![w] = CHOOSE i \in found : TRUE]
            /\ pc' = [pc EXCEPT ![w] = "clothe_get"]
            /\ UNCHANGED wres
       ELSE /\ pc' = [pc EXCEPT ![w] = "store_create"]
            /\ UNCHANGED <<wstore, wres>>
    /\ UNCHANGED <<clothes, stores, resp, wreq, wobj, extractVars, now, outfits>>

\* Store.objects.get_or_create, the create after DoesNotExist. No
\* constraint of Store can reject the insert.
StoreCreate(w) ==
    /\ pc[w] = "store_create"
    /\ stores' = Append(stores, RehabcloStore)
    /\ wstore' = [wstore EXCEPT ![w] = Len(stores) + 1]
    /\ pc' = [pc EXCEPT ![w] = "clothe_get"]
    /\ UNCHANGED <<clothes, resp, wreq, wobj, wres, extractVars, now, outfits>>

\* update_or_create: select_for_update().get(name=title).
ClotheGet(w) ==
    /\ pc[w] \in {"clothe_get", "clothe_reget"}
    /\ LET found == ClothesNamed(clothes, wreq[w][1].title) IN
       IF Cardinality(found) > 1
       THEN Finish(w, MultipleObjectsReturned) /\ UNCHANGED wobj
       ELSE IF found # {}
       THEN /\ ~LockedByOther(w, CHOOSE i \in found : TRUE)
            /\ wobj' = [wobj EXCEPT ![w] = CHOOSE i \in found : TRUE]
            /\ pc' = [pc EXCEPT ![w] = "clothe_save"]
            /\ UNCHANGED wres
       ELSE IF pc[w] = "clothe_get"
       THEN /\ pc' = [pc EXCEPT ![w] = "clothe_insert"]
            /\ UNCHANGED <<wobj, wres>>
       ELSE Finish(w, IntegrityError) /\ UNCHANGED wobj
    /\ UNCHANGED <<clothes, stores, resp, wreq, wstore, extractVars, now, outfits>>

\* update_or_create: the create after DoesNotExist; an IntegrityError
\* leads to a second get.
ClotheInsert(w) ==
    /\ pc[w] = "clothe_insert"
    /\ LET vd == wreq[w][1]
           row == PreSaveAdd(SetAttrs(SetAttrs(ClotheDefaults,
                                               ClotheData(vd, wstore[w])),
                                      [name |-> vd.title]))
       IN IF ClotheWriteAllowed(clothes, row, 0)
          THEN /\ Len(clothes) < MaxRows
               /\ clothes' = Append(clothes, row)
               /\ wobj' = [wobj EXCEPT ![w] = Len(clothes) + 1]
               /\ Finish(w, "created")
          ELSE /\ pc' = [pc EXCEPT ![w] = "clothe_reget"]
               /\ UNCHANGED <<clothes, wobj, wres>>
    /\ UNCHANGED <<stores, resp, wreq, wstore, extractVars, now, outfits>>

\* update_or_create: setattr the defaults on the row read, save().
ClotheSave(w) ==
    /\ pc[w] = "clothe_save"
    /\ LET row == PreSave(SetAttrs(clothes[wobj[w]],
                                   ClotheData(wreq[w][1], wstore[w]))) IN
       IF ClotheWriteAllowed(clothes, row, wobj[w])
       THEN /\ clothes' = [clothes EXCEPT ![wobj[w]] = row]
            /\ Finish(w, "updated")
       ELSE /\ UNCHANGED clothes
            /\ Finish(w, IntegrityError)
    /\ UNCHANGED <<stores, resp, wreq, wstore, wobj, extractVars, now, outfits>>

NextConc ==
    \/ \E w \in Workers, body \in ConcBodies : Begin(w, body)
    \/ \E w \in Workers : StoreGet(w)
    \/ \E w \in Workers : StoreCreate(w)
    \/ \E w \in Workers : ClotheGet(w)
    \/ \E w \in Workers : ClotheInsert(w)
    \/ \E w \in Workers : ClotheSave(w)

SpecConc == Init /\ [][NextConc]_vars


-----------------------------------------------------------------------------
(* SpecExtract: extract_products_from_js applied to one page. The page is   *)
(* drawn from the metadata blocks and image blocks below.                   *)

CdnHost == <<"c", "d", "n", ".", "x", ".", "c", "o", "m">>
JpgPath == <<"/", "a", ".", "j", "p", "g">>
ImgPath == <<"i", "m", "g">> \o JpgPath
BlueShirt == <<"B", "l", "u", "e", " ", "S", "h", "i", "r", "t">>

\* The image paths of the productVariants entries.
SrcProtocolRelative == <<"/", "/">> \o CdnHost \o JpgPath
SrcRooted == Slash \o ImgPath
SrcRelative == ImgPath
SrcHttps == HttpsPrefix \o <<"/", "/">> \o CdnHost \o JpgPath
SrcFtp == <<"f", "t", "p", ":", "/", "/">> \o CdnHost \o JpgPath
SrcHttpDir == HttpText \o <<"x">> \o JpgPath
SrcSlashes == <<"/", "/">>

Srcs ==
    {SrcProtocolRelative, SrcRooted, SrcRelative, SrcHttps, SrcFtp, SrcHttpDir,
     SrcSlashes, <<>>}

VariantEntry(product_id, src) ==
    JDict([product |-> JDict([id |-> product_id]), image |-> JDict([src |-> src])])

VariantEntries ==
    { VariantEntry(JStr(<<"1">>), JStr(s)) : s \in Srcs }
    \cup { VariantEntry(JInt(2), JStr(s)) : s \in {SrcHttps, SrcHttpDir} }
    \cup { VariantEntry(JStr(<<"4", "2">>), JStr(SrcProtocolRelative)),
           VariantEntry(JStr(<<"x">>), JStr(SrcHttps)),
           VariantEntry(JStr(<<"1">>), JNull),
           JDict([product |-> JNull, image |-> JDict([src |-> JStr(SrcHttps)])]),
           JDict([product |-> JDict([id |-> JStr(<<"1">>)]), image |-> JNull]),
           JDict([product |-> JDict([id |-> JStr(<<"1">>)])]),
           JDict([image |-> JDict([src |-> JStr(SrcHttps)])]) }

NamedVariant(name) == JDict([name |-> JStr(name)])

\* The raw products of the metadata block.
RawProducts ==
    { JDict([id |-> JInt(1), gid |-> JStr(<<"g">>), vendor |-> JStr(<<"v">>),
             type |-> JStr(<<"S">>), title |-> JStr(<<"T">>), name |-> JStr(<<"N">>),
             variants |-> JList(<< NamedVariant(BlueShirt \o SeparatorText \o <<"M">>) >>)]),
      JDict([id |-> JInt(2), title |-> JStr(<<>>), name |-> JStr(<<"N">>),
             product_title |-> JStr(<<"Q">>)]),
      JDict([id |-> JInt(2), product_title |-> JStr(<<"Q">>)]),
      JDict([id |-> JInt(42),
             variants |-> JList(<< NamedVariant(BlueShirt \o SeparatorText \o <<"M">>),
                                   NamedVariant(<<"Z">> \o SeparatorText \o <<"L">>) >>)]),
      JDict([id |-> JInt(42)]),
      JDict([id |-> JInt(42), variants |-> JList(<< NamedVariant(<<"M">>) >>)]),
      JDict([id |-> JInt(1),
             variants |-> JList(<< NamedVariant(SeparatorText \o <<"M">>) >>)]),
      JDict([title |-> JStr(<<"T">>)]),
      JDict([id |-> JInt(0), title |-> JStr(<<"T">>)]),
      JDict([id |-> JNull, title |-> JStr(<<"T">>)]),
      JDict([id |-> JInt(1), variants |-> JList(<< JNull >>)]),
      JDict([id |-> JInt(1), title |-> JStr(<<>>), name |-> JStr(<<>>),
             product_title |-> JStr(<<>>), variants |-> JList(<<>>)]) }

\* What the search for "var meta = {...};" and json.loads make of a page.
MetaBlocks ==
    { [kind |-> "absent"], [kind |-> "malformed"],
      [kind |-> "json", data |-> JDict(EmptyDict)] }
    \cup { [kind |-> "json", data |-> JDict([products |-> JList(l)])] :
             l \in SeqsUpTo(RawProducts, MaxProducts) }

\* What the search for the collection_viewed call and json.loads make of it.
PixelBlocks ==
    { [kind |-> "absent"], [kind |-> "malformed"],
      [kind |-> "json", data |-> JDict(EmptyDict)] }
    \cup { [kind |-> "json",
            data |-> JDict([collection |-> JDict([productVariants |-> JList(l)])])] :
             l \in SeqsUpTo(VariantEntries, MaxVariants) }

InitExtract ==
    /\ clothes = <<>>
    /\ stores = <<>>
    /\ resp = NoResp
    /\ IdleWorkers
    /\ \E m \in MetaBlocks, p \in PixelBlocks : page = [meta |-> m, pixels |-> p]
    /\ extracted = NoOut
    /\ now = 0
    /\ outfits = <<>>

\* DetailsSpider.parse's call of extract_products_from_js on the page.
Extract ==
    /\ ~extracted.done
    /\ \E r \in { ExtractProductsFromJs(page) } :
         extracted' = [done |-> TRUE, error |-> r.error, products |-> r.products,
                       meta_products |-> r.meta_products,
                       image_mapping |-> r.image_mapping, log |-> r.log]
    /\ UNCHANGED <<clothes, stores, resp, workerVars, page, now, outfits>>

NextExtract == Extract

SpecExtract == InitExtract /\ [][NextExtract]_vars

-----------------------------------------------------------------------------
(* SpecClock: single-record ingestion while time passes. *)

\* The clock advances.
Tick ==
    /\ now < MaxTime
    /\ now' = now + 1
    /\ UNCHANGED <<clothes, stores, resp, workerVars, extractVars, outfits>>

NextClock ==
    \/ \E body \in ScrapedBodies : FromScraped(body)
    \/ Tick

SpecClock == Init /\ [][NextClock]_vars

-----------------------------------------------------------------------------
(* SpecIngest: single-record ingestion of request data of any shape. *)

\* A well-typed record as the JSON parser delivers it.
Json(body) ==
    [k \in DOMAIN body |->
        CASE k = "id" -> JInt(body[k])
          [] k = "variants" -> JList([i \in DOMAIN body[k] |-> JDict(body[k][i])])
          [] OTHER -> JStr(body[k])]

PlainRecord == Json(FullBody(1, "A", [type |-> "Zzz", variants |-> <<>>]))

\* Requests: the well-typed records, records lacking one required field,
\* records with a value of another type, and values the fields coerce.
IngestRequests ==
    { Json(b) : b \in ValidBodies }
    \cup { Without(PlainRecord, f) : f \in RequiredFields }
    \cup { With(PlainRecord, "id", JStr("abc")),
           With(PlainRecord, "id", JNull),
           With(PlainRecord, "id", JBool(TRUE)),
           With(PlainRecord, "gid", JNull),
           With(PlainRecord, "vendor", JDict(EmptyDict)),
           With(PlainRecord, "type", JBool(TRUE)),
           With(PlainRecord, "title", JStr("")),
           With(PlainRecord, "title", JList(<<>>)),
           With(PlainRecord, "variants", JStr("S")),
           With(PlainRecord, "variants", JDict(EmptyDict)),
           With(PlainRecord, "variants", JList(<< JStr("S") >>)),
           With(PlainRecord, "image_url", JStr("not a url")),
           Without(With(PlainRecord, "id", JStr("abc")), "title"),
           [id |-> JInt(1), title |-> JStr("A")] }
    \cup { With(PlainRecord, "id", JStr("2")),
           With(PlainRecord, "title", JInt(7)),
           With(PlainRecord, "extra", JInt(1)) }

\* POST clothe/from-scraped/ with the given request data.
FromScrapedJson(data) ==
    \E r \in { CreateClotheFromScrapedData(clothes, stores, data) } :
    /\ Len(r.clothes) <= MaxRows
    /\ clothes' = r.clothes
    /\ stores' = r.stores
    /\ resp' = r.resp
    /\ UNCHANGED <<workerVars, extractVars, now, outfits>>

NextIngest == \E data \in IngestRequests : FromScrapedJson(data)

SpecIngest == Init /\ [][NextIngest]_vars

-----------------------------------------------------------------------------
(* SpecCrawl: crawls over a network that may fail at each submission. *)

\* Records a crawl submits: two titles under one vendor id (the second is
\* answered 500) and a record the service answers 400.
CrawlBodies ==
    { FullBody(1, "A", BatchPayload), FullBody(1, "B", BatchPayload),
      Without(FullBody(2, "B", BatchPayload), "id") }

CrawlBatches == SeqsUpTo(CrawlBodies, MaxCrawl)

\* One crawl, the network behaving as net says for each submission.
CrawlOverNetwork(products, net) ==
    \E r \in { SaveProductsToDatabase(clothes, stores, products, net) } :
    /\ Len(r.clothes) <= MaxRows
    /\ clothes' = r.clothes
    /\ stores' = r.stores
    /\ resp' = [NoResp EXCEPT !.op = "crawl", !.req = products, !.net = net,
                              !.saved_count = r.saved_count, !.sent = r.sent]
    /\ UNCHANGED <<workerVars, extractVars, now, outfits>>

NextCrawl ==
    \E products \in CrawlBatches :
        \E net \in [DOMAIN products -> NetOutcomes] : CrawlOverNetwork(products, net)

SpecCrawl == Init /\ [][NextCrawl]_vars

-----------------------------------------------------------------------------
(* SpecDerived: items with all kinds of variants are ingested and read. *)

\* Variants with a price of zero, a usual price, an empty size label, no
\* price and no size label.
VariantSamples ==
    { Variant(p, z) : p \in {0, 1000, 3799000}, z \in {"S", ""} }
    \cup { VariantNoPrice("L"), [price |-> 1000] }

DerivedBodies ==
    { FullBody(id, "A", [type |-> "Shorts", variants |-> vs]) :
        id \in ShopifyIds, vs \in SeqsUpTo(VariantSamples, MaxItemVariants) }

\* GET clothe/<id>/
ClotheRetrieve(id) ==
    /\ resp' = ClotheRetrieveView(clothes, id)
    /\ UNCHANGED <<clothes, stores, workerVars, extractVars, now, outfits>>

NextDerived ==
    \/ \E body \in DerivedBodies : FromScraped(body)
    \/ \E id \in 1 .. MaxRows : ClotheRetrieve(id)

SpecDerived == Init /\ [][NextDerived]_vars

-----------------------------------------------------------------------------
(* SpecOutfit: outfits are created from the clothes of a wardrobe. *)

\* A Clothe row a user created with POST clothe/.
WardrobeRow(name, type) ==
    SetAttrs(ClotheDefaults,
             [name |-> name, type |-> type, image_url |-> Some(ImageUrl),
              user |-> Some(1), created_at |-> 0, updated_at |-> 0])

\* The wardrobe: one row of each group, both kinds of bottom, and a row of
\* no group.
Wardrobe ==
    << WardrobeRow("jorts", "SHORTS"), WardrobeRow("jeans", "PANTS"),
       WardrobeRow("cap", "ACCESSORIES"), WardrobeRow("tee", "POLERA"),
       WardrobeRow("coat", "OTHER") >>

\* The ascending list of the elements of a set of integers.
RECURSIVE Ascending(_)
Ascending(S) == IF S = {} THEN <<>> ELSE << Min(S) >> \o Ascending(S \ {Min(S)})

\* An id no Clothe row has.
UnknownId == Len(Wardrobe) + 1

\* Component lists: every selection of wardrobe rows, lists naming a clothe
\* that does not exist, and a list naming a row twice.
ComponentLists ==
    { Ascending(S) : S \in SUBSET DOMAIN Wardrobe }
    \cup { << UnknownId >>, << 1, 3, 4, UnknownId >>, << 1, 1, 3, 4 >> }

OutfitNames == {"Summer", "Winter"}

\* Request data of POST outfit/: complete requests of user 1, and requests
\* with an unknown user, a blank name and a rating out of range.
OutfitCreateData ==
    { [user |-> 1, name |-> n, rating |-> 5, components |-> c] :
        n \in OutfitNames, c \in ComponentLists }
    \cup { [user |-> 2, name |-> "Summer", rating |-> 5, components |-> << 1, 3, 4 >>],
           [user |-> 1, name |-> "", rating |-> 5, components |-> << 1, 3, 4 >>],
           [user |-> 1, name |-> "Summer", rating |-> 6, components |-> << 1, 3, 4 >>] }

InitOutfit ==
    /\ clothes = Wardrobe
    /\ stores = <<>>
    /\ resp = NoResp
    /\ IdleWorkers
    /\ page = NoPage
    /\ extracted = NoOut
    /\ now = 0
    /\ outfits = <<>>

\* POST outfit/
OutfitCreate(data) ==
    \E r \in { OutfitCreateView(clothes, outfits, data) } :
    /\ Len(r.outfits) <= MaxOutfits
    /\ outfits' = r.outfits
    /\ resp' = r.resp
    /\ UNCHANGED <<clothes, stores, workerVars, extractVars, now>>

\* validate_components called with a list of integers.
ValidateComponentsCall(ids) ==
    /\ resp' = [NoResp EXCEPT !.op = "validate_components",
                              !.req = << [components |-> ids] >>,
                              !.detail = << ValidateComponents(clothes, ids, FALSE) >>]
    /\ UNCHANGED <<clothes, stores, workerVars, extractVars, now, outfits>>

NextOutfit ==
    \/ \E data \in OutfitCreateData : OutfitCreate(data)
    \/ \E ids \in ComponentLists : ValidateComponentsCall(ids)

SpecOutfit == InitOutfit /\ [][NextOutfit]_vars

-----------------------------------------------------------------------------
(* SpecRead: every request that answers with Clothe JSON. *)

\* GET clothe/all/
ClotheList(clothe_type, vendor) ==
    /\ \E order \in NewestFirst(clothes, ClotheQueryset(clothes, clothe_type, vendor)) :
          resp' = ClotheListView(clothes, clothe_type, vendor, order)
    /\ UNCHANGED <<clothes, stores, workerVars, extractVars, now, outfits>>

NextRead ==
    \/ \E body \in ScrapedBodies : FromScraped(body)
    \/ \E products \in Batches : BulkFromScraped(products)
    \/ \E data \in ClotheCreateData : ClotheCreate(data)
    \/ \E id \in 1 .. MaxRows : ClotheRetrieve(id)
    \/ \E clothe_type \in {"", "SHORTS"}, vendor \in {"", "REHAB"} :
          ClotheList(clothe_type, vendor)

SpecRead == Init /\ [][NextRead]_vars

-----------------------------------------------------------------------------
(* Properties *)

\* The request body of the last single-record ingestion.
LastBody == resp.req[1]

ScrapedStoreIds == StoresNamed(stores, RehabcloName)

\* C1: two single-record upserts in sequence with the identical record, the
\* first on a catalog without that title: the caller is told created=True,
\* then created=False, and the catalog holds exactly one row of that name.
C1_CreatedThenUpdatedReported ==
    [][ (resp'.op = "from_scraped" /\ resp'.status = 201) =>
          LET body == resp'.req[1] IN
          /\ ClothesNamed(clothes, body.title) = {} =>
                /\ resp'.reported_created = TRUE
                /\ Cardinality(ClothesNamed(clothes', body.title)) = 1
          /\ (resp.op = "from_scraped" /\ resp.status = 201 /\ resp.req = resp'.req) =>
                /\ resp'.reported_created = FALSE
                /\ Cardinality(ClothesNamed(clothes', body.title)) = 1 ]_vars

\* C2: a crawl that submits the same records as the crawl before it inserts
\* no Clothe row and no Store row and leaves every field of every row as it
\* was.
C2_RerunChangesNothing ==
    [][ (resp.op = "crawl" /\ resp'.op = "crawl" /\ resp'.req = resp.req) =>
          (clothes' = clothes /\ stores' = stores) ]_vars

\* C3: no two Clothe rows have the same name.
C3_NamesUnique ==
    \A i, j \in DOMAIN clothes : clothes[i].name = clothes[j].name => i = j

\* C4: when all concurrent upserts have returned (the scraped-source store
\* being single), the catalog holds at most one row of each title and no
\* upsert has failed on an ambiguous title.
C4_ConcurrentUpsertsOneRow ==
    ((\A w \in Workers : pc[w] = "idle") /\ Cardinality(ScrapedStoreIds) <= 1) =>
        /\ \A t \in Titles : Cardinality(ClothesNamed(clothes, t)) <= 1
        /\ \A w \in Workers : wres[w] # MultipleObjectsReturned

\* C5: under concurrent first use there is never more than one Store row
\* named "Rehabclo", every call past store resolution holds that row, and no
\* call ends in an error of the store lookup.
C5_ConcurrentStoreSingle ==
    /\ Cardinality(ScrapedStoreIds) <= 1
    /\ \A w \in Workers :
         pc[w] \in {"clothe_get", "clothe_insert", "clothe_reget", "clothe_save"}
            => wstore[w] \in ScrapedStoreIds
    /\ \A w \in Workers : wres[w] # MultipleObjectsReturned

\* C6: a single-record upsert that meets no duplicate key (its title matches
\* at most one row, whoever owns it, and its vendor id is held by no other
\* row) succeeds, and the resulting row has store = the scraped-source store
\* and user unset.
C6_UpsertOwnedByScrapedStore ==
    [][ (/\ resp'.op = "from_scraped"
         /\ ScrapedIsValid(resp'.req[1])
         /\ Cardinality(ClothesNamed(clothes, resp'.req[1].title)) <= 1
         /\ \A i \in DOMAIN clothes :
               clothes[i].shopify_id = Some(resp'.req[1].id)
                  => clothes[i].name = resp'.req[1].title)
        => /\ resp'.status = 201
           /\ \A i \in ClothesNamed(clothes', resp'.req[1].title) :
                 /\ clothes'[i].user = Null
                 /\ clothes'[i].store # Null
                 /\ clothes'[i].store[1] \in StoresNamed(stores', RehabcloName) ]_vars

\* C7: every Clothe row has exactly one of user and store set, and a write
\* the database rejects leaves the Clothe rows as they were.
C7_ExactlyOneOwner ==
    [][ /\ \A i \in DOMAIN clothes' :
              (clothes'[i].user = Null) # (clothes'[i].store = Null)
        /\ resp'.status = 500 => clothes' = clothes ]_vars

\* C7 witness: a POST clothe/ naming no owner or both owners was rejected,
\* with rows in the table.
C7_Witness ==
    /\ resp.op = "clothe_create"
    /\ resp.status = 500
    /\ resp.error = IntegrityError
    /\ clothes # <<>>

\* Number of valid records of a batch.
NumValid(products) == Cardinality({ i \in DOMAIN products : ScrapedIsValid(products[i]) })

\* C8: a bulk request with invalid records still upserts the valid ones:
\* each valid record's title has a row afterwards and created + updated is
\* the number of valid records.
C8_BulkIsolatesFailures ==
    (resp.op = "bulk_from_scraped" /\ NumValid(resp.req) < Len(resp.req)) =>
        /\ resp.created + resp.updated = NumValid(resp.req)
        /\ \A i \in DOMAIN resp.req :
              ScrapedIsValid(resp.req[i]) => ClothesNamed(clothes, resp.req[i].title) # {}

\* The names of a list of serialized items.
ItemNames(items) == { items[i].name : i \in DOMAIN items }

\* C9: in the answer of a successful bulk request, created counts (and
\* created_items lists) the records whose title had no row when the record
\* was processed, updated the others.
C9_BulkSummaryDistinguishes ==
    [][ (resp'.op = "bulk_from_scraped" /\ resp'.status = 201) =>
          LET titles == { resp'.req[i].title : i \in DOMAIN resp'.req }
              fresh == { t \in titles : ClothesNamed(clothes, t) = {} }
          IN /\ resp'.created = Cardinality(fresh)
             /\ resp'.updated = Len(resp'.req) - Cardinality(fresh)
             /\ ItemNames(resp'.created_items) = fresh ]_vars

\* C10: after a successful single-record upsert the row's base_price is null
\* when the record has no variants, and else the first variant's minor-unit
\* price / 100 (3799000 gives 37990.00), whatever the later variants cost.
C10_BasePriceFromFirstVariant ==
    (resp.op = "from_scraped" /\ resp.status = 201) =>
        LET row == clothes[resp.item[1].id]
            variants == LastBody.variants
        IN /\ variants = <<>> => row.base_price = Null
           /\ (variants # <<>> /\ "price" \in DOMAIN variants[1]) =>
                 /\ row.base_price # Null
                 /\ row.base_price[1] * 100 + row.base_price[2] = variants[1].price
                 /\ row.base_price[2] \in 0 .. 99
                 /\ variants[1].price = 3799000 => row.base_price = <<37990, 0>>

\* C10 witness: an upsert of a record whose first variant costs 3799000 and
\* whose second variant costs something else.
C10_Witness ==
    /\ resp.op = "from_scraped"
    /\ resp.status = 201
    /\ Len(LastBody.variants) >= 2
    /\ LastBody.variants[1].price = 3799000
    /\ LastBody.variants[2].price # 3799000
    /\ clothes[resp.item[1].id].base_price = <<37990, 0>>

\* C11: the type mapping is total: after a successful single-record upsert
\* the row's type is the table value of the record's label ("Shorts" gives
\* SHORTS, "Polera" POLERA), OTHER for a label the table lacks ("Zzz"), and
\* every ingested row's type is a member of ClothingType.
C11_TypeMappingTotal ==
    /\ \A i \in DOMAIN clothes : clothes[i].type \in ClothingType
    /\ (resp.op = "from_scraped" /\ resp.status = 201) =>
          LET row == clothes[resp.item[1].id]
              label == LastBody.type
          IN /\ label = "Shorts" => row.type = "SHORTS"
             /\ label = "Polera" => row.type = "POLERA"
             /\ label \notin {"Shorts", PantalonKey, "Polera", "Accesorio"} =>
                   row.type = "OTHER"

\* C11 witness: a record with a label the table lacks was ingested as OTHER.
C11_Witness ==
    /\ resp.op = "from_scraped"
    /\ resp.status = 201
    /\ LastBody.type = "Zzz"
    /\ clothes[resp.item[1].id].type = "OTHER"

\* C12: for a page without the "var meta = {...};" assignment,
\* extract_products_from_js returns an empty list and raises nothing,
\* whatever the image block holds.
C12_NoMarkerNoProducts ==
    (extracted.done /\ page.meta.kind = "absent") =>
        (extracted.error = Ok /\ extracted.products = <<>>)

\* C13: every record extract_products_from_js returns has a non-empty id and
\* a non-empty title; a raw product without id, or whose resolved name is
\* empty, is not among the records.
C13_RecordsHaveIdAndTitle ==
    extracted.done =>
        /\ \A i \in DOMAIN extracted.products :
              LET record == extracted.products[i][2] IN
              /\ record.id[1] = "int" /\ record.id[2] # 0
              /\ record.title[1] = "str" /\ Len(record.title[2]) > 0
        /\ Len(extracted.products) <=
              Cardinality({ i \in DOMAIN extracted.meta_products :
                              /\ JTruthy(PyGet(extracted.meta_products[i], "id", JNull))
                              /\ ExtractProductName(extracted.meta_products[i])
                                   \notin {JStr(<<>>), Raised("AttributeError")} })

\* C13 witness: of two raw products one was emitted and the one whose name
\* resolved to the empty left part of " - M" was dropped.
C13_Witness ==
    /\ extracted.done
    /\ extracted.error = Ok
    /\ Len(extracted.products) = 1
    /\ \E i \in DOMAIN extracted.meta_products :
          /\ JTruthy(PyGet(extracted.meta_products[i], "id", JNull))
          /\ ExtractProductName(extracted.meta_products[i]) = JStr(<<>>)

\* C14: the name of an emitted record is the first non-empty of the raw
\* product's title, name and product_title; with all three empty, the part
\* left of " - " in the first variant's name ("Blue Shirt - M" gives
\* "Blue Shirt"); with no such variant name, "Product {id}" (id 42 gives
\* "Product 42"). Stated on pages with one raw product.
C14_NameFallbackChain ==
    (/\ extracted.done
     /\ Len(extracted.meta_products) = 1
     /\ Len(extracted.products) = 1) =>
        LET raw == extracted.meta_products[1][2]
            title == extracted.products[1][2].title[2]
            Field(k) == IF k \in DOMAIN raw THEN raw[k][2] ELSE <<>>
            unnamed == /\ Field("title") = <<>>
                       /\ Field("name") = <<>>
                       /\ Field("product_title") = <<>>
            first_name == IF Field("variants") = <<>> THEN <<>>
                          ELSE Field("variants")[1][2].name[2]
        IN /\ Field("title") # <<>> => title = Field("title")
           /\ (Field("title") = <<>> /\ Field("name") # <<>>) => title = Field("name")
           /\ (Field("title") = <<>> /\ Field("name") = <<>>
                 /\ Field("product_title") # <<>>) => title = Field("product_title")
           /\ (unnamed /\ first_name = BlueShirt \o <<" ", "-", " ", "M">>) =>
                 title = BlueShirt
           /\ (unnamed /\ Find(first_name, <<" ", "-", " ">>) = 0
                 /\ raw.id = JInt(42)) =>
                 title = <<"P", "r", "o", "d", "u", "c", "t", " ", "4", "2">>

\* C14 witness: a raw product without name fields whose first variant is
\* named "Blue Shirt - M" was emitted as "Blue Shirt".
C14_Witness ==
    /\ extracted.done
    /\ Len(extracted.meta_products) = 1
    /\ Len(extracted.products) = 1
    /\ DOMAIN extracted.meta_products[1][2] = {"id", "variants"}
    /\ extracted.products[1][2].title = JStr(BlueShirt)

\* C15: the URL the image stage computes for an image path: "https:" + path
\* for a path beginning with "//"; the origin + path for a path beginning
\* with one "/"; the origin + "/" + path for a path without a scheme; the
\* path itself when it is already absolute (it has a scheme).
C15_ImagePathNormalized ==
    extracted.done =>
        \A i \in DOMAIN extracted.log :
            LET src == extracted.log[i].src
                url == extracted.log[i].url
            IN /\ StartsWith(src, <<"/", "/">>) => url = <<"h", "t", "t", "p", "s", ":">> \o src
               /\ (StartsWith(src, <<"/">>) /\ ~StartsWith(src, <<"/", "/">>)) =>
                     url = Origin \o src
               /\ (~StartsWith(src, <<"/">>) /\ UrlScheme(src) = <<>>) =>
                     url = Origin \o <<"/">> \o src
               /\ UrlScheme(src) # <<>> => url = src

\* The productVariants entries of the page's image block.
PageVariants ==
    IF page.pixels.kind = "json" /\ "collection" \in DOMAIN page.pixels.data[2]
    THEN page.pixels.data[2].collection[2].productVariants[2]
    ELSE <<>>

\* url is "<scheme>://<host>...": it has both a scheme and a host.
HasSchemeAndHost(url) ==
    LET i == Find(url, <<":", "/", "/">>) IN
    /\ i > 1
    /\ \A j \in 1 .. (i - 1) : url[j] \in Letters
    /\ Len(url) >= i + 3
    /\ url[i + 3] \notin {"/", "?", "#"}

\* A productVariants entry that carries a product id, an image path, and a
\* normalized URL with scheme and host.
UsableEntry(entry) ==
    /\ {"product", "image"} \subseteq DOMAIN entry[2]
    /\ entry[2].product[1] = "dict" /\ "id" \in DOMAIN entry[2].product[2]
    /\ JTruthy(entry[2].product[2].id) /\ ~IsRaised(PyInt(entry[2].product[2].id))
    /\ entry[2].image[1] = "dict" /\ "src" \in DOMAIN entry[2].image[2]
    /\ entry[2].image[2].src[1] = "str" /\ entry[2].image[2].src[2] # <<>>
    /\ HasSchemeAndHost(NormalizeImageSrc(entry[2].image[2].src[2]))

\* C16: every value of the image lookup is an absolute URL with scheme and
\* host, and the lookup holds an entry for exactly the products of the
\* usable productVariants entries: an entry without product id, without image
\* path or with an invalid URL adds nothing and does not keep the entries
\* after it from being mapped.
C16_LookupHoldsValidUrls ==
    extracted.done =>
        /\ \A k \in DOMAIN extracted.image_mapping :
              HasSchemeAndHost(extracted.image_mapping[k])
        /\ DOMAIN extracted.image_mapping =
              { PyInt(PageVariants[i][2].product[2].id)[2] :
                  i \in { j \in DOMAIN PageVariants : UsableEntry(PageVariants[j]) } }

\* The raw products of the page that carry an id and resolve to a name.
EmittableProducts ==
    { i \in DOMAIN extracted.meta_products :
        /\ JTruthy(PyGet(extracted.meta_products[i], "id", JNull))
        /\ ExtractProductName(extracted.meta_products[i])
             \notin {JStr(<<>>), Raised("AttributeError")} }

\* C17: every emitted record's image_url is the lookup's URL for the
\* record's id when the lookup has one and "" otherwise, and every raw
\* product with id and name is emitted whether or not the lookup has an
\* entry for it.
C17_JoinByProductId ==
    extracted.done =>
        /\ \A i \in DOMAIN extracted.products :
              LET record == extracted.products[i][2] IN
              record.image_url =
                  IF record.id[2] \in DOMAIN extracted.image_mapping
                  THEN JStr(extracted.image_mapping[record.id[2]])
                  ELSE JStr(<<>>)
        /\ Len(extracted.products) = Cardinality(EmittableProducts)

\* C18: when the image block's JSON does not parse, the lookup is empty and
\* every raw product with id and name is emitted with image_url ""; when
\* the metadata block's JSON does not parse, no product is returned, nothing
\* is raised and the image stage has built its lookup.
C18_StagesFailIndependently ==
    extracted.done =>
        /\ page.pixels.kind = "malformed" =>
              /\ extracted.error = Ok
              /\ DOMAIN extracted.image_mapping = {}
              /\ Len(extracted.products) = Cardinality(EmittableProducts)
              /\ \A i \in DOMAIN extracted.products :
                    extracted.products[i][2].image_url = JStr(<<>>)
        /\ page.meta.kind = "malformed" =>
              /\ extracted.error = Ok
              /\ extracted.products = <<>>
              /\ DOMAIN extracted.image_mapping =
                    { PyInt(PageVariants[i][2].product[2].id)[2] :
                        i \in { j \in DOMAIN PageVariants : UsableEntry(PageVariants[j]) } }

\* C19: a single-record upsert of a valid record (whose vendor id no row of
\* another name holds) whose title one row carries overwrites that row's
\* type, image reference, vendor, base price, variants and store with the
\* record's values, inserts nothing and changes no other row; when no row
\* carries the title it appends exactly one row with those values and
\* changes no existing row.
C19_UpsertFrame ==
    [][ (/\ resp'.op = "from_scraped"
         /\ ScrapedIsValid(resp'.req[1])
         /\ \A i \in DOMAIN clothes :
               clothes[i].shopify_id = Some(resp'.req[1].id) =>
                   clothes[i].name = resp'.req[1].title) =>
          LET body == resp'.req[1]
              found == ClothesNamed(clothes, body.title)
              Written(row) ==
                  /\ row.name = body.title
                  /\ row.type = TypeMapping(body.type)
                  /\ row.image = Null
                  /\ row.image_url = Some(Get(body, "image_url", ""))
                  /\ row.vendor = Some(body.vendor)
                  /\ row.base_price = BasePrice(body.variants)
                  /\ row.variants = body.variants
                  /\ row.store # Null
                  /\ row.store[1] \in StoresNamed(stores', RehabcloName)
          IN /\ Cardinality(found) = 1 =>
                  /\ Len(clothes') = Len(clothes)
                  /\ \A i \in DOMAIN clothes :
                        IF i \in found THEN Written(clothes'[i])
                        ELSE clothes'[i] = clothes[i]
             /\ found = {} =>
                  /\ Len(clothes') = Len(clothes) + 1
                  /\ \A i \in DOMAIN clothes : clothes'[i] = clothes[i]
                  /\ Written(clothes'[Len(clothes')]) ]_vars

\* C20: over upserts while time passes, a row's created_at never changes,
\* its updated_at never decreases and is never earlier than its created_at,
\* and every successful upsert sets the row's updated_at (and, when it
\* creates the row, its created_at) to the time of the write.
C20_Timestamps ==
    [][ /\ \A i \in DOMAIN clothes :
              /\ clothes'[i].created_at = clothes[i].created_at
              /\ clothes'[i].updated_at >= clothes[i].updated_at
        /\ \A i \in DOMAIN clothes' : clothes'[i].updated_at >= clothes'[i].created_at
        /\ (now' = now /\ resp'.op = "from_scraped" /\ resp'.status = 201) =>
              LET id == resp'.item[1].id IN
              /\ clothes'[id].updated_at = now
              /\ id \notin DOMAIN clothes => clothes'[id].created_at = now ]_vars

\* C20 witness: a row created at one time was upserted again at a later
\* time.
C20_Witness ==
    /\ resp.op = "from_scraped"
    /\ resp.status = 201
    /\ clothes[resp.item[1].id].created_at < clothes[resp.item[1].id].updated_at
    /\ clothes[resp.item[1].id].updated_at = now

\* The JSON type each required field takes.
RequiredJsonType ==
    [id |-> "int", gid |-> "str", vendor |-> "str", type |-> "str",
     title |-> "str", variants |-> "list"]

\* The required fields a request lacks or gives as a value of a JSON type
\* the field cannot be read from.
BadFields(data) ==
    { f \in RequiredFields :
        \/ f \notin DOMAIN data
        \/ data[f][1] \in {"null", "bool", "dict", "list"} \ {RequiredJsonType[f]}
        \/ (f = "variants" /\ data[f][1] # "list")
        \/ (f = "variants" /\ data[f][1] = "list"
              /\ \E i \in DOMAIN data[f][2] : data[f][2][i][1] # "dict") }

\* A request with every required field present in its own JSON type (texts
\* non-blank) and image_url, when given, a URL or blank.
WellFormed(data) ==
    /\ \A f \in RequiredFields :
          /\ f \in DOMAIN data
          /\ data[f][1] = RequiredJsonType[f]
          /\ data[f][1] = "str" => data[f][2] # ""
    /\ \A i \in DOMAIN data.variants[2] : data.variants[2][i][1] = "dict"
    /\ "image_url" \in DOMAIN data =>
          (data.image_url[1] = "str" /\ data.image_url[2] \in {"", ImageUrl})

\* C21: a single-record ingestion whose body lacks a required field (id,
\* gid, vendor, type, title, variants) or gives one as a wrongly typed value
\* is answered 400 with an error map keyed by field names that names each
\* such field, and leaves the Clothe and Store tables unchanged; a valid
\* body is answered 200/201 with the created or updated item.
C21_IngestionOutcomes ==
    [][ (resp'.op = "from_scraped" /\ resp'.data # <<>>) =>
          LET data == resp'.data[1] IN
          /\ BadFields(data) # {} =>
                /\ resp'.status = 400
                /\ BadFields(data) \subseteq resp'.errors
                /\ resp'.errors \subseteq DOMAIN FieldKinds
                /\ clothes' = clothes
                /\ stores' = stores
          /\ WellFormed(data) =>
                /\ resp'.status \in {200, 201}
                /\ resp'.item # <<>>
                /\ resp'.item[1].name = data.title[2]
                /\ resp'.item[1].id \in ClothesNamed(clothes', data.title[2]) ]_vars

\* C22: no two Clothe rows share a non-null shopify_id, and a single-record
\* ingestion of a valid record whose vendor id a row of another name holds
\* is rejected with a structured error (a 4xx answer with an error map, no
\* unhandled exception), inserts no row and leaves every row as it was.
C22_DuplicateVendorIdRejected ==
    [][ /\ \A i, j \in DOMAIN clothes' :
              (clothes'[i].shopify_id # Null
                 /\ clothes'[i].shopify_id = clothes'[j].shopify_id) => i = j
        /\ (/\ resp'.op = "from_scraped"
            /\ ScrapedIsValid(resp'.req[1])
            /\ \E i \in DOMAIN clothes :
                  /\ clothes[i].shopify_id = Some(resp'.req[1].id)
                  /\ clothes[i].name # resp'.req[1].title)
           => /\ resp'.status \in 400 .. 499
              /\ resp'.errors # {}
              /\ resp'.error = Ok
              /\ clothes' = clothes ]_vars

\* C23: save_products_to_database posts every record of the crawl, in
\* order, whatever became of the submissions before it (timeout, connection
\* error, an answer other than 200/201, an unreadable answer), raises
\* nothing, and returns the number of records answered 200 or 201.
C23_PerRecordSubmission ==
    resp.op = "crawl" =>
        /\ resp.error = Ok
        /\ Len(resp.sent) = Len(resp.req)
        /\ \A i \in DOMAIN resp.req : resp.sent[i].product = resp.req[i]
        /\ resp.saved_count =
              Cardinality({ i \in DOMAIN resp.sent : resp.sent[i].status \in {200, 201} })

\* C23 witness: a crawl in which a submission that failed (no answer, or an
\* answer other than 200/201) was followed by one answered 201.
C23_Witness ==
    /\ resp.op = "crawl"
    /\ resp.saved_count >= 1
    /\ \E i, j \in DOMAIN resp.sent :
          /\ i < j
          /\ resp.sent[i].status \notin {200, 201}
          /\ resp.sent[j].status = 201
    /\ \E i \in DOMAIN resp.net : resp.net[i] \in {"timeout", "connection_error"}

\* The prices of the variants of a row, each variant having one.
VariantPrices(row) == { row.variants[i].price : i \in DOMAIN row.variants }

\* C24: the price_range of an item with variants (each carrying a price) is
\* {price: p} exactly when all variants share the one price p, and else
\* {min_price, max_price} with the least and the greatest variant price,
\* each the minor-unit price divided by 100.
C24_PriceRange ==
    (resp.op = "clothe_retrieve" /\ resp.status = 200) =>
        LET row == clothes[resp.req[1]]
            range == resp.serialized[1].price_range
        IN (/\ row.variants # <<>>
            /\ \A i \in DOMAIN row.variants : "price" \in DOMAIN row.variants[i])
           => IF Cardinality(VariantPrices(row)) = 1
              THEN range = [price |-> CentavosToPesos(Min(VariantPrices(row)))]
              ELSE range = [min_price |-> CentavosToPesos(Min(VariantPrices(row))),
                            max_price |-> CentavosToPesos(Max(VariantPrices(row)))]

\* The positions of the variants of a row that carry a non-empty size label.
Labelled(row) ==
    { i \in DOMAIN row.variants :
        "public_title" \in DOMAIN row.variants[i] /\ row.variants[i].public_title # "" }

\* C25: the available_sizes of an item lists the public_title of its
\* variants in the variants' order, one entry for each variant with a
\* non-empty label and none for a variant whose label is empty or missing.
C25_AvailableSizes ==
    (resp.op = "clothe_retrieve" /\ resp.status = 200) =>
        LET row == clothes[resp.req[1]]
            sizes == resp.serialized[1].available_sizes
        IN \E f \in [DOMAIN sizes -> Labelled(row)] :
              /\ \A a, b \in DOMAIN sizes : a < b => f[a] < f[b]
              /\ { f[k] : k \in DOMAIN sizes } = Labelled(row)
              /\ \A k \in DOMAIN sizes : sizes[k] = row.variants[f[k]].public_title

\* C25 witness: an item whose first variant has no label, or an empty one,
\* and whose second variant is labelled "S" was read: its sizes are ["S"].
C25_Witness ==
    /\ resp.op = "clothe_retrieve"
    /\ resp.status = 200
    /\ Len(clothes[resp.req[1]].variants) = 2
    /\ Labelled(clothes[resp.req[1]]) = {2}
    /\ clothes[resp.req[1]].variants[2].public_title = "S"
    /\ resp.serialized[1].available_sizes = << "S" >>

\* C26: whatever the page holds, blocks of an unexpected shape included (a
\* productVariants entry whose product or image is null, a product id that
\* is no number, a product lacking fields), extract_products_from_js raises
\* nothing, and a bad entry costs no more than itself: every usable
\* productVariants entry is in the lookup and every raw product with id and
\* name is emitted.
C26_NoExtractionErrorIsFatal ==
    extracted.done =>
        /\ extracted.error = Ok
        /\ \A i \in DOMAIN PageVariants :
              UsableEntry(PageVariants[i]) =>
                  PyInt(PageVariants[i][2].product[2].id)[2]
                      \in DOMAIN extracted.image_mapping
        /\ Cardinality(EmittableProducts) = Len(extracted.products)

\* The component ids of the last outfit request or validate_components call.
LastComponents == resp.req[1].components

\* The groups of an outfit none of the given clothes belongs to.
MissingGroups(ids) ==
    LET types == { clothes[ids[i]].type : i \in DOMAIN ids } IN
    { g \in {"Pants or Shorts", "Accessories", "Polera"} :
        CASE g = "Pants or Shorts" -> "PANTS" \notin types /\ "SHORTS" \notin types
          [] g = "Accessories" -> "ACCESSORIES" \notin types
          [] g = "Polera" -> "POLERA" \notin types }

C28_OutfitNamesUniquePerUser ==
    [][ /\ \A i, j \in DOMAIN outfits' :
              (outfits'[i].user = outfits'[j].user
                 /\ outfits'[i].name = outfits'[j].name) => i = j
        /\ (/\ resp'.op = "outfit_create"
            /\ OutfitsOf(outfits, resp'.req[1].user, resp'.req[1].name) # {})
           => /\ resp'.status = 400
              /\ resp'.errors # {}
              /\ outfits' = outfits ]_vars

\* C28 witness: with two outfits in the table, a complete request repeating
\* the name of the second one was rejected by validate.
C28_Witness ==
    /\ resp.op = "outfit_create"
    /\ resp.status = 400
    /\ resp.errors = {"non_field_errors"}
    /\ Len(outfits) = 2
    /\ resp.req[1].name = outfits[2].name

\* C29: a successful single-record upsert whose title a row carries under
\* another vendor id leaves that row with the record's shopify_id and gid,
\* leaves the old vendor id with no row and leaves the number of rows as it
\* was.
C29_UpdateOverwritesVendorId ==
    [][ (resp'.op = "from_scraped" /\ resp'.status = 201) =>
          LET body == resp'.req[1] IN
          \A i \in ClothesNamed(clothes, body.title) :
              clothes[i].shopify_id # Some(body.id) =>
                  /\ clothes'[i].shopify_id = Some(body.id)
                  /\ clothes'[i].gid = Some(body.gid)
                  /\ clothes[i].shopify_id # Null =>
                        \A j \in DOMAIN clothes' :
                            clothes'[j].shopify_id # clothes[i].shopify_id
                  /\ Len(clothes') = Len(clothes) ]_vars

\* C29 witness: an upsert found its title on a row holding another vendor
\* id and the row now holds the record's.
C29_Witness ==
    /\ resp.op = "from_scraped"
    /\ resp.status = 201
    /\ resp.matched # <<>>
    /\ resp.matched[1] \notin {Null, Some(LastBody.id)}
    /\ clothes[resp.item[1].id].shopify_id = Some(LastBody.id)
    /\ clothes[resp.item[1].id].gid = Some(GidOf(LastBody.id))

\* The Clothe JSON objects of the last response.
ClotheJsons ==
    { resp.item[i] : i \in DOMAIN resp.item }
    \cup { resp.items[i] : i \in DOMAIN resp.items }
    \cup { resp.created_items[i] : i \in DOMAIN resp.created_items }
    \cup { resp.updated_items[i] : i \in DOMAIN resp.updated_items }

=============================================================================
